---- MODULE Spec2Model ----
(***************************************************************************)
(* ASPEED System Control Unit (hw/misc/aspeed_scu.c): the register file of *)
(* the AST2400, AST2500 and AST2600 variants, their MMIO read and write    *)
(* handlers, device reset and realize.                                     *)
(*                                                                         *)
(* A uint32_t is modelled as the set of its set bit positions (a subset of *)
(* 0..31): `a | b' is union, `a & ~b' is set difference, `!a' is a = {}.   *)
(* Word(hi, lo) is the word 0xHHHHLLLL given by its two 16-bit halves.     *)
(***************************************************************************)
EXTENDS Integers, FiniteSets, Sequences, TLC

VARIABLES
    gen,          \* the class of the instance: "ast2400", "ast2500", "ast2600"
    silicon_rev,  \* property "silicon-rev"
    hw_strap1,    \* property "hw-strap1"
    hw_strap2,    \* property "hw-strap2"
    hw_prot_key,  \* property "hw-prot-key"
    iomem,        \* TRUE once realize has installed the MMIO region
    errp,         \* TRUE once realize has reported an error
    regs,         \* s->regs
    pre,          \* s->regs as it was when the call in `last' was made
    last,         \* the call made to the device: its arguments, its result
    nwrites,      \* MMIO writes since the last reset
    bql,          \* the holder of the lock that serializes resets and accesses
    reset_pc,     \* the statement of the reset function to execute next, or 0
    reset_from,   \* s->regs as it was when the reset in progress began
    inflight      \* the access a CPU has issued that has not run yet

\* The variables of the interleaving of a reset with the accesses of a CPU.
cvars == <<bql, reset_pc, reset_from, inflight>>

vars == <<gen, silicon_rev, hw_strap1, hw_strap2, hw_prot_key, iomem, errp,
          regs, pre, last, nwrites, cvars>>

\* Number of MMIO writes explored after each reset.
MaxWrites == 2

-----------------------------------------------------------------------------
(* 32-bit words *)

HalfBits(n, base) == {base + i : i \in {j \in 0..15 : (n \div (2^j)) % 2 = 1}}

Word(hi, lo) == HalfBits(lo, 0) \cup HalfBits(hi, 16)

BIT(n) == {n}

Zero == {}

\* The value a bus access of `size' bytes can carry.
FitsSize(data, size) == \A b \in data : b < 8 * size

-----------------------------------------------------------------------------
(* Register indices *)

TO_REG(offset) == offset \div 4

PROT_KEY        == TO_REG(\H00)
SYS_RST_CTRL    == TO_REG(\H04)
CLK_SEL         == TO_REG(\H08)
CLK_STOP_CTRL   == TO_REG(\H0C)
FREQ_CNTR_EVAL  == TO_REG(\H14)
D2PLL_PARAM     == TO_REG(\H1C)
MPLL_PARAM      == TO_REG(\H20)
HPLL_PARAM      == TO_REG(\H24)
MISC_CTRL1      == TO_REG(\H2C)
PCI_CTRL1       == TO_REG(\H30)
PCI_CTRL2       == TO_REG(\H34)
PCI_CTRL3       == TO_REG(\H38)
SYS_RST_STATUS  == TO_REG(\H3C)
SOC_SCRATCH1    == TO_REG(\H40)
MISC_CTRL2      == TO_REG(\H4C)
VGA_SCRATCH1    == TO_REG(\H50)
VGA_SCRATCH8    == TO_REG(\H6C)
HW_STRAP1       == TO_REG(\H70)
RNG_CTRL        == TO_REG(\H74)
RNG_DATA        == TO_REG(\H78)
SILICON_REV     == TO_REG(\H7C)
PINMUX_CTRL2    == TO_REG(\H84)
PINMUX_CTRL3    == TO_REG(\H88)
PINMUX_CTRL4    == TO_REG(\H8C)
PINMUX_CTRL5    == TO_REG(\H90)
WDT_RST_CTRL    == TO_REG(\H9C)
PINMUX_CTRL8    == TO_REG(\HA4)
PINMUX_CTRL9    == TO_REG(\HA8)
WAKEUP_EN       == TO_REG(\HC0)
HW_STRAP2       == TO_REG(\HD0)
FREE_CNTR4      == TO_REG(\HE0)
FREE_CNTR4_EXT  == TO_REG(\HE4)
CPU2_CTRL       == TO_REG(\H100)
CPU2_BASE_SEG1  == TO_REG(\H104)
CPU2_BASE_SEG4  == TO_REG(\H110)
CPU2_BASE_SEG5  == TO_REG(\H114)
CHIP_ID0        == TO_REG(\H150)
CHIP_ID1        == TO_REG(\H154)
UART_HPLL_CLK   == TO_REG(\H160)
PCIE_CTRL       == TO_REG(\H180)
BMC_DEV_ID      == TO_REG(\H1A4)

AST2600_PROT_KEY           == TO_REG(\H00)
AST2600_SILICON_REV        == TO_REG(\H04)
AST2600_SILICON_REV2       == TO_REG(\H14)
AST2600_SYS_RST_CTRL       == TO_REG(\H40)
AST2600_SYS_RST_CTRL_CLR   == TO_REG(\H44)
AST2600_SYS_RST_CTRL2      == TO_REG(\H50)
AST2600_SYS_RST_CTRL2_CLR  == TO_REG(\H54)
AST2600_CLK_STOP_CTRL      == TO_REG(\H80)
AST2600_CLK_STOP_CTRL_CLR  == TO_REG(\H84)
AST2600_CLK_STOP_CTRL2     == TO_REG(\H90)
AST2600_CLK_STOP_CTRL2_CLR == TO_REG(\H94)
AST2600_SDRAM_HANDSHAKE    == TO_REG(\H100)
AST2600_HPLL_PARAM         == TO_REG(\H200)
AST2600_HPLL_EXT           == TO_REG(\H204)
AST2600_MPLL_EXT           == TO_REG(\H224)
AST2600_EPLL_EXT           == TO_REG(\H244)
AST2600_CLK_SEL            == TO_REG(\H300)
AST2600_HW_STRAP1          == TO_REG(\H500)
AST2600_HW_STRAP1_CLR      == TO_REG(\H504)
AST2600_HW_STRAP1_PROT     == TO_REG(\H508)
AST2600_HW_STRAP2          == TO_REG(\H510)
AST2600_HW_STRAP2_CLR      == TO_REG(\H514)
AST2600_HW_STRAP2_PROT     == TO_REG(\H518)
AST2600_RNG_CTRL           == TO_REG(\H524)
AST2600_RNG_DATA           == TO_REG(\H540)
AST2600_CHIP_ID0           == TO_REG(\H5B0)
AST2600_CHIP_ID1           == TO_REG(\H5B4)

SCU_IO_REGION_SIZE == \H1000

(* include/hw/misc/aspeed_scu.h (the header is not among the sources; the  *)
(* tables below index up to 0x1A4 and 0x5B4, which these sizes cover).     *)
ASPEED_SCU_NR_REGS         == TO_REG(\H1A8)
ASPEED_AST2600_SCU_NR_REGS == TO_REG(\HE20)

ASPEED_SCU_PROT_KEY    == Word(\H1688, \HA8A8)
AST2400_A0_SILICON_REV == Word(\H0200, \H0303)
AST2400_A1_SILICON_REV == Word(\H0201, \H0303)
AST2500_A0_SILICON_REV == Word(\H0400, \H0303)
AST2500_A1_SILICON_REV == Word(\H0401, \H0303)
AST2600_A0_SILICON_REV == Word(\H0500, \H0303)
AST2600_A1_SILICON_REV == Word(\H0501, \H0303)

-----------------------------------------------------------------------------
(* Reset tables *)

ast2400_a0_resets ==
    [r \in 0..(ASPEED_SCU_NR_REGS - 1) |->
        CASE r = SYS_RST_CTRL   -> Word(\HFFCF, \HFEDC)
          [] r = CLK_SEL        -> Word(\HF3F4, \H0000)
          [] r = CLK_STOP_CTRL  -> Word(\H19FC, \H3E8B)
          [] r = D2PLL_PARAM    -> Word(\H0002, \H6108)
          [] r = MPLL_PARAM     -> Word(\H0003, \H0291)
          [] r = HPLL_PARAM     -> Word(\H0000, \H0291)
          [] r = MISC_CTRL1     -> Word(\H0000, \H0010)
          [] r = PCI_CTRL1      -> Word(\H2000, \H1A03)
          [] r = PCI_CTRL2      -> Word(\H2000, \H1A03)
          [] r = PCI_CTRL3      -> Word(\H0400, \H0030)
          [] r = SYS_RST_STATUS -> Word(\H0000, \H0001)
          [] r = SOC_SCRATCH1   -> Word(\H0000, \H00C0)
          [] r = MISC_CTRL2     -> Word(\H0000, \H0023)
          [] r = RNG_CTRL       -> Word(\H0000, \H000E)
          [] r = PINMUX_CTRL2   -> Word(\H0000, \HF000)
          [] r = PINMUX_CTRL3   -> Word(\H0100, \H0000)
          [] r = PINMUX_CTRL4   -> Word(\H0000, \H00FF)
          [] r = PINMUX_CTRL5   -> Word(\H0000, \HA000)
          [] r = WDT_RST_CTRL   -> Word(\H003F, \HFFF3)
          [] r = PINMUX_CTRL8   -> Word(\HFFFF, \H0000)
          [] r = PINMUX_CTRL9   -> Word(\H000F, \HFFFF)
          [] r = FREE_CNTR4     -> Word(\H0000, \H00FF)
          [] r = FREE_CNTR4_EXT -> Word(\H0000, \H00FF)
          [] r = CPU2_BASE_SEG1 -> Word(\H8000, \H0000)
          [] r = CPU2_BASE_SEG4 -> Word(\H1E60, \H0000)
          [] r = CPU2_BASE_SEG5 -> Word(\HC000, \H0000)
          [] r = UART_HPLL_CLK  -> Word(\H0000, \H1903)
          [] r = PCIE_CTRL      -> Word(\H0000, \H007B)
          [] r = BMC_DEV_ID     -> Word(\H0000, \H2402)
          [] OTHER              -> Zero]

ast2500_a1_resets ==
    [r \in 0..(ASPEED_SCU_NR_REGS - 1) |->
        CASE r = SYS_RST_CTRL   -> Word(\HFFCF, \HFEDC)
          [] r = CLK_SEL        -> Word(\HF3F4, \H0000)
          [] r = CLK_STOP_CTRL  -> Word(\H19FC, \H3E8B)
          [] r = D2PLL_PARAM    -> Word(\H0002, \H6108)
          [] r = MPLL_PARAM     -> Word(\H0003, \H0291)
          [] r = HPLL_PARAM     -> Word(\H9300, \H0400)
          [] r = MISC_CTRL1     -> Word(\H0000, \H0010)
          [] r = PCI_CTRL1      -> Word(\H2000, \H1A03)
          [] r = PCI_CTRL2      -> Word(\H2000, \H1A03)
          [] r = PCI_CTRL3      -> Word(\H0400, \H0030)
          [] r = SYS_RST_STATUS -> Word(\H0000, \H0001)
          [] r = SOC_SCRATCH1   -> Word(\H0000, \H00C0)
          [] r = MISC_CTRL2     -> Word(\H0000, \H0023)
          [] r = RNG_CTRL       -> Word(\H0000, \H000E)
          [] r = PINMUX_CTRL2   -> Word(\H0000, \HF000)
          [] r = PINMUX_CTRL3   -> Word(\H0300, \H0000)
          [] r = PINMUX_CTRL4   -> Word(\H0000, \H0000)
          [] r = PINMUX_CTRL5   -> Word(\H0000, \HA000)
          [] r = WDT_RST_CTRL   -> Word(\H023F, \HFFF3)
          [] r = PINMUX_CTRL8   -> Word(\HFFFF, \H0000)
          [] r = PINMUX_CTRL9   -> Word(\H000F, \HFFFF)
          [] r = FREE_CNTR4     -> Word(\H0000, \H00FF)
          [] r = FREE_CNTR4_EXT -> Word(\H0000, \H00FF)
          [] r = CPU2_BASE_SEG1 -> Word(\H8000, \H0000)
          [] r = CPU2_BASE_SEG4 -> Word(\H1E60, \H0000)
          [] r = CPU2_BASE_SEG5 -> Word(\HC000, \H0000)
          [] r = CHIP_ID0       -> Word(\H1234, \HABCD)
          [] r = CHIP_ID1       -> Word(\H8888, \H4444)
          [] r = UART_HPLL_CLK  -> Word(\H0000, \H1903)
          [] r = PCIE_CTRL      -> Word(\H0000, \H007B)
          [] r = BMC_DEV_ID     -> Word(\H0000, \H2402)
          [] OTHER              -> Zero]

ast2600_a1_resets ==
    [r \in 0..(ASPEED_AST2600_SCU_NR_REGS - 1) |->
        CASE r = AST2600_SYS_RST_CTRL    -> Word(\HF7C3, \HFED8)
          [] r = AST2600_SYS_RST_CTRL2   -> Word(\HFFFF, \HFFFC)
          [] r = AST2600_CLK_STOP_CTRL   -> Word(\HFFFF, \H7F8A)
          [] r = AST2600_CLK_STOP_CTRL2  -> Word(\HFFF0, \HFFF0)
          [] r = AST2600_SDRAM_HANDSHAKE -> Word(\H0000, \H0000)
          [] r = AST2600_HPLL_PARAM      -> Word(\H1000, \H405F)
          [] r = AST2600_CHIP_ID0        -> Word(\H1234, \HABCD)
          [] r = AST2600_CHIP_ID1        -> Word(\H8888, \H4444)
          [] OTHER                       -> Zero]

-----------------------------------------------------------------------------
(* The three classes (AspeedSCUClass) *)

Gens == {"ast2400", "ast2500", "ast2600"}

class_resets(g) ==
    CASE g = "ast2400" -> ast2400_a0_resets
      [] g = "ast2500" -> ast2500_a1_resets
      [] g = "ast2600" -> ast2600_a1_resets

\* Mutant of class_nr_regs: aspeed_2600_scu_class_init keeps the register
\* count of the AST2500 class it was copied from.
class_nr_regs_of_2500(g) == ASPEED_SCU_NR_REGS

class_nr_regs(g) ==
    CASE g = "ast2400" -> ASPEED_SCU_NR_REGS
      [] g = "ast2500" -> ASPEED_SCU_NR_REGS
      [] g = "ast2600" -> ASPEED_AST2600_SCU_NR_REGS

\* Mutant of class_apb_divider: aspeed_2600_scu_class_init does not set
\* asc->apb_divider, which the class keeps zeroed.
class_apb_divider_unset_2600(g) ==
    CASE g = "ast2400" -> 2
      [] g = "ast2500" -> 4
      [] g = "ast2600" -> 0

class_apb_divider(g) ==
    CASE g = "ast2400" -> 2
      [] g = "ast2500" -> 4
      [] g = "ast2600" -> 4

\* The access sizes each MemoryRegionOps declares valid; unaligned accesses
\* are not valid for any of the three.
ops_valid(g, offset, size) ==
    /\ offset \in 0..(SCU_IO_REGION_SIZE - 1)
    /\ offset % size = 0
    /\ IF g = "ast2400" THEN size \in {1, 2, 4} ELSE size = 4

-----------------------------------------------------------------------------
(* Handlers.  Each takes the register file s and returns the register file *)
(* it leaves, with the value returned (reads) and the diagnostics logged.  *)

One == Word(0, 1)

\* Mutant of aspeed_scu_read: the value drawn is returned and s->regs is
\* left as it was.
aspeed_scu_read_rng_not_stored(s, offset, rnd) ==
    LET reg == TO_REG(offset) IN
    IF reg >= ASPEED_SCU_NR_REGS
    THEN [regs |-> s, ret |-> Zero, log |-> {"oob"}, draws |-> 0, refs |-> {}]
    ELSE [regs |-> s, ret |-> IF reg = RNG_DATA THEN rnd ELSE s[reg],
          log |-> IF reg = WAKEUP_EN THEN {"write-only"} ELSE {},
          draws |-> IF reg = RNG_DATA THEN 1 ELSE 0,
          refs |-> {reg}]

\* Mutant of aspeed_scu_read: the WAKEUP_EN case returns 0 after its log.
aspeed_scu_read_wakeup_zero(s, offset, rnd) ==
    LET reg == TO_REG(offset) IN
    IF reg >= ASPEED_SCU_NR_REGS
    THEN [regs |-> s, ret |-> Zero, log |-> {"oob"}, draws |-> 0, refs |-> {}]
    ELSE LET s1 == IF reg = RNG_DATA THEN [s EXCEPT ![RNG_DATA] = rnd] ELSE s
         IN  [regs |-> s1, ret |-> IF reg = WAKEUP_EN THEN Zero ELSE s1[reg],
              log |-> IF reg = WAKEUP_EN THEN {"write-only"} ELSE {},
              draws |-> IF reg = RNG_DATA THEN 1 ELSE 0,
              refs |-> IF reg = WAKEUP_EN THEN {} ELSE {reg}]

\* aspeed_scu_read, the read handler of the AST2400 and the AST2500; rnd is
\* the value aspeed_scu_get_random() draws when it is called.
aspeed_scu_read(s, offset, rnd) ==
    LET reg == TO_REG(offset) IN
    IF reg >= ASPEED_SCU_NR_REGS
    THEN [regs |-> s, ret |-> Zero, log |-> {"oob"}, draws |-> 0, refs |-> {}]
    ELSE LET s1 == IF reg = RNG_DATA THEN [s EXCEPT ![RNG_DATA] = rnd] ELSE s
         IN  [regs |-> s1, ret |-> s1[reg],
              log |-> IF reg = WAKEUP_EN THEN {"write-only"} ELSE {},
              draws |-> IF reg = RNG_DATA THEN 1 ELSE 0,
              refs |-> {reg}]

\* Mutant of aspeed_ast2600_scu_read: AST2600_MPLL_EXT has no case label.
aspeed_ast2600_scu_read_no_mpll(s, offset, rnd) ==
    LET reg == TO_REG(offset) IN
    IF reg >= ASPEED_AST2600_SCU_NR_REGS
    THEN [regs |-> s, ret |-> Zero, log |-> {"oob"}, draws |-> 0, refs |-> {}]
    ELSE IF reg \in {AST2600_HPLL_EXT, AST2600_EPLL_EXT}
    THEN [regs |-> s, ret |-> s[reg] \cup BIT(31), log |-> {}, draws |-> 0,
          refs |-> {reg}]
    ELSE LET s1 == IF reg = AST2600_RNG_DATA
                   THEN [s EXCEPT ![AST2600_RNG_DATA] = rnd] ELSE s
         IN  [regs |-> s1, ret |-> s1[reg], log |-> {},
              draws |-> IF reg = AST2600_RNG_DATA THEN 1 ELSE 0,
              refs |-> {reg}]

\* aspeed_ast2600_scu_read
aspeed_ast2600_scu_read(s, offset, rnd) ==
    LET reg == TO_REG(offset) IN
    IF reg >= ASPEED_AST2600_SCU_NR_REGS
    THEN [regs |-> s, ret |-> Zero, log |-> {"oob"}, draws |-> 0, refs |-> {}]
    ELSE IF reg \in {AST2600_HPLL_EXT, AST2600_EPLL_EXT, AST2600_MPLL_EXT}
    THEN [regs |-> s, ret |-> s[reg] \cup BIT(31), log |-> {}, draws |-> 0,
          refs |-> {reg}]
    ELSE LET s1 == IF reg = AST2600_RNG_DATA
                   THEN [s EXCEPT ![AST2600_RNG_DATA] = rnd] ELSE s
         IN  [regs |-> s1, ret |-> s1[reg], log |-> {},
              draws |-> IF reg = AST2600_RNG_DATA THEN 1 ELSE 0,
              refs |-> {reg}]

\* Mutant of prot_key_value: the value written is stored as it is.
prot_key_value_raw(data) == data

\* The value a write to the protection key register stores.
prot_key_value(data) == IF data = ASPEED_SCU_PROT_KEY THEN One ELSE Zero

\* The condition of the lock check of the AST2400 and AST2500 write handlers.
scu_locked(s, reg) ==
    reg > PROT_KEY /\ reg < CPU2_BASE_SEG1 /\ s[PROT_KEY] = Zero

\* The registers the condition reads: the key register, when the two
\* comparisons before it hold.
scu_locked_refs(reg) ==
    IF reg > PROT_KEY /\ reg < CPU2_BASE_SEG1 THEN {PROT_KEY} ELSE {}

\* The lock check of aspeed_ast2400_scu_write: what it logs and whether it
\* returns.  The block holds the log call only.
ast2400_lock_check(s, reg) ==
    [log |-> IF scu_locked(s, reg) THEN {"locked"} ELSE {}, return |-> FALSE,
     refs |-> scu_locked_refs(reg)]

\* Mutant of ast2500_lock_check: the `return' is in place.
ast2500_lock_check_returns(s, reg) ==
    [log |-> IF scu_locked(s, reg) THEN {"locked"} ELSE {},
     return |-> scu_locked(s, reg), refs |-> scu_locked_refs(reg)]

\* The lock check of aspeed_ast2500_scu_write; its `return' is commented
\* out.
ast2500_lock_check(s, reg) ==
    [log |-> IF scu_locked(s, reg) THEN {"locked"} ELSE {}, return |-> FALSE,
     refs |-> scu_locked_refs(reg)]

ast2400_read_only(reg) ==
    \/ reg = SILICON_REV
    \/ reg = FREQ_CNTR_EVAL
    \/ reg \in VGA_SCRATCH1..VGA_SCRATCH8
    \/ reg = RNG_DATA
    \/ reg = FREE_CNTR4
    \/ reg = FREE_CNTR4_EXT

\* Mutant of ast2400_scu_write_reg: the last statement is
\* s->regs[reg] |= data.
ast2400_scu_write_reg_or(s, reg, data) ==
    LET lc == ast2400_lock_check(s, reg)
        lk == lc.log
    IN
    IF lc.return
    THEN [regs |-> s, log |-> lk, refs |-> lc.refs]
    ELSE IF reg = PROT_KEY
    THEN [regs |-> [s EXCEPT ![reg] = prot_key_value(data)], log |-> lk,
          refs |-> lc.refs \cup {reg}]
    ELSE IF ast2400_read_only(reg)
    THEN [regs |-> s, log |-> lk \cup {"read-only"}, refs |-> lc.refs]
    ELSE [regs |-> [s EXCEPT ![reg] = @ \cup data], log |-> lk,
          refs |-> lc.refs \cup {reg}]

\* aspeed_ast2400_scu_write after its bounds check: the lock check and the
\* switch
ast2400_scu_write_reg(s, reg, data) ==
    LET lc == ast2400_lock_check(s, reg)
        lk == lc.log
    IN
    IF lc.return
    THEN [regs |-> s, log |-> lk, refs |-> lc.refs]
    ELSE IF reg = PROT_KEY
    THEN [regs |-> [s EXCEPT ![reg] = prot_key_value(data)], log |-> lk,
          refs |-> lc.refs \cup {reg}]
    ELSE IF ast2400_read_only(reg)
    THEN [regs |-> s, log |-> lk \cup {"read-only"}, refs |-> lc.refs]
    ELSE [regs |-> [s EXCEPT ![reg] = data], log |-> lk,
          refs |-> lc.refs \cup {reg}]

\* Mutant of aspeed_ast2400_scu_write: the bounds check is
\* reg > ASPEED_SCU_NR_REGS.
aspeed_ast2400_scu_write_off_by_one(s, offset, data) ==
    LET reg == TO_REG(offset) IN
    IF reg > ASPEED_SCU_NR_REGS
    THEN [regs |-> s, log |-> {"oob"}, refs |-> {}]
    ELSE ast2400_scu_write_reg(s, reg, data)

\* aspeed_ast2400_scu_write
aspeed_ast2400_scu_write(s, offset, data) ==
    LET reg == TO_REG(offset) IN
    IF reg >= ASPEED_SCU_NR_REGS
    THEN [regs |-> s, log |-> {"oob"}, refs |-> {}]
    ELSE ast2400_scu_write_reg(s, reg, data)

\* Mutant of ast2500_read_only: the list of the AST2400, which has no
\* chip ID registers.
ast2500_read_only_no_chip_id(reg) == ast2400_read_only(reg)

ast2500_read_only(reg) ==
    \/ reg = FREQ_CNTR_EVAL
    \/ reg \in VGA_SCRATCH1..VGA_SCRATCH8
    \/ reg = RNG_DATA
    \/ reg = FREE_CNTR4
    \/ reg = FREE_CNTR4_EXT
    \/ reg = CHIP_ID0
    \/ reg = CHIP_ID1

\* aspeed_ast2500_scu_write
aspeed_ast2500_scu_write(s, offset, data) ==
    LET reg == TO_REG(offset) IN
    IF reg >= ASPEED_SCU_NR_REGS
    THEN [regs |-> s, log |-> {"oob"}, refs |-> {}]
    ELSE LET lc == ast2500_lock_check(s, reg)
             lk == lc.log
         IN
         IF lc.return
         THEN [regs |-> s, log |-> lk, refs |-> lc.refs]
         ELSE IF reg = PROT_KEY
         THEN [regs |-> [s EXCEPT ![reg] = prot_key_value(data)], log |-> lk,
               refs |-> lc.refs \cup {reg}]
         ELSE IF reg = HW_STRAP1
         THEN [regs |-> [s EXCEPT ![HW_STRAP1] = @ \cup data], log |-> lk,
               refs |-> lc.refs \cup {HW_STRAP1}]
         ELSE IF reg = SILICON_REV
         THEN [regs |-> [s EXCEPT ![HW_STRAP1] = @ \ data], log |-> lk,
               refs |-> lc.refs \cup {HW_STRAP1}]
         ELSE IF ast2500_read_only(reg)
         THEN [regs |-> s, log |-> lk \cup {"read-only"}, refs |-> lc.refs]
         ELSE [regs |-> [s EXCEPT ![reg] = data], log |-> lk,
               refs |-> lc.refs \cup {reg}]

\* The condition of the lock check of the AST2600 write handler.
ast2600_scu_locked(s, reg) == reg > PROT_KEY /\ s[PROT_KEY] = Zero

ast2600_scu_locked_refs(reg) == IF reg > PROT_KEY THEN {PROT_KEY} ELSE {}

\* Mutant of ast2600_lock_check: a locked write returns after the log.
ast2600_lock_check_returns(s, reg) ==
    [log |-> IF ast2600_scu_locked(s, reg) THEN {"locked"} ELSE {},
     return |-> ast2600_scu_locked(s, reg),
     refs |-> ast2600_scu_locked_refs(reg)]

\* Mutant of ast2600_lock_check: the condition is !s->regs[PROT_KEY] alone
\* and the block returns.
ast2600_lock_check_key_too(s, reg) ==
    [log |-> IF s[PROT_KEY] = Zero THEN {"locked"} ELSE {},
     return |-> s[PROT_KEY] = Zero, refs |-> {PROT_KEY}]

\* The lock check of aspeed_ast2600_scu_write: it logs and does not return.
ast2600_lock_check(s, reg) ==
    [log |-> IF ast2600_scu_locked(s, reg) THEN {"locked"} ELSE {},
     return |-> FALSE, refs |-> ast2600_scu_locked_refs(reg)]

ast2600_w1s(reg) ==
    reg \in {AST2600_SYS_RST_CTRL, AST2600_SYS_RST_CTRL2,
             AST2600_CLK_STOP_CTRL, AST2600_CLK_STOP_CTRL2}

\* Mutant of ast2600_w1c: the strap clear registers have no case label.
ast2600_w1c_no_strap(reg) ==
    reg \in {AST2600_SYS_RST_CTRL_CLR, AST2600_SYS_RST_CTRL2_CLR,
             AST2600_CLK_STOP_CTRL_CLR, AST2600_CLK_STOP_CTRL2_CLR}

ast2600_w1c(reg) ==
    reg \in {AST2600_SYS_RST_CTRL_CLR, AST2600_SYS_RST_CTRL2_CLR,
             AST2600_CLK_STOP_CTRL_CLR, AST2600_CLK_STOP_CTRL2_CLR,
             AST2600_HW_STRAP1_CLR, AST2600_HW_STRAP2_CLR}

\* Mutant of ast2600_read_only: the second revision register has no case
\* label.
ast2600_read_only_no_rev2(reg) ==
    reg \in {AST2600_RNG_DATA, AST2600_SILICON_REV, AST2600_CHIP_ID0,
             AST2600_CHIP_ID1}

ast2600_read_only(reg) ==
    reg \in {AST2600_RNG_DATA, AST2600_SILICON_REV, AST2600_SILICON_REV2,
             AST2600_CHIP_ID0, AST2600_CHIP_ID1}

\* Mutant of ast2600_strap_protected: the register one word above the
\* strap is tested.
ast2600_strap_protected_next(s, reg) == s[reg + 1] # Zero

\* The strap case of the AST2600 write handler: the write is dropped when
\* the protection register two words above the strap is not zero.
ast2600_strap_protected(s, reg) == s[reg + 2] # Zero

\* The register that test reads: s->regs[reg + 2].
ast2600_strap_prot_reg(reg) == reg + 2

\* s->regs[reg] |= data
w1s_apply(old, data) == old \cup data

\* s->regs[reg - 1] &= ~data
w1c_target(reg) == reg - 1

\* Mutant of w1c_apply: s->regs[reg - 1] &= data
w1c_apply_and(old, data) == old \cap data

w1c_apply(old, data) == old \ data

\* aspeed_ast2600_scu_write
aspeed_ast2600_scu_write(s, offset, data) ==
    LET reg == TO_REG(offset) IN
    IF reg >= ASPEED_AST2600_SCU_NR_REGS
    THEN [regs |-> s, log |-> {"oob"}, refs |-> {}]
    ELSE LET lc == ast2600_lock_check(s, reg)
             lk == lc.log
             strap == reg \in {AST2600_HW_STRAP1, AST2600_HW_STRAP2}
             rf == lc.refs \cup
                   (IF strap THEN {ast2600_strap_prot_reg(reg)} ELSE {})
         IN
         IF lc.return
         THEN [regs |-> s, log |-> lk, refs |-> lc.refs]
         ELSE IF reg = AST2600_PROT_KEY
         THEN [regs |-> [s EXCEPT ![reg] = prot_key_value(data)], log |-> lk,
               refs |-> rf \cup {reg}]
         ELSE IF strap /\ ast2600_strap_protected(s, reg)
         THEN [regs |-> s, log |-> lk, refs |-> rf]
         ELSE IF strap \/ ast2600_w1s(reg)
         THEN [regs |-> [s EXCEPT ![reg] = w1s_apply(@, data)], log |-> lk,
               refs |-> rf \cup {reg}]
         ELSE IF ast2600_w1c(reg)
         THEN [regs |-> [s EXCEPT ![w1c_target(reg)] = w1c_apply(@, data)],
               log |-> lk, refs |-> rf \cup {w1c_target(reg)}]
         ELSE IF ast2600_read_only(reg)
         THEN [regs |-> s, log |-> lk \cup {"read-only"}, refs |-> rf]
         ELSE [regs |-> [s EXCEPT ![reg] = data], log |-> lk,
               refs |-> rf \cup {reg}]

\* Mutant of memcpy_resets: memcpy(s->regs, asc->resets, asc->nr_regs),
\* a byte count without the word size.
memcpy_resets_bytes(s, resets, nr_regs) ==
    [r \in DOMAIN s |-> IF r < nr_regs \div 4 THEN resets[r] ELSE s[r]]

\* memcpy(s->regs, asc->resets, asc->nr_regs * 4)
memcpy_resets(s, resets, nr_regs) ==
    [r \in DOMAIN s |-> IF r < nr_regs THEN resets[r] ELSE s[r]]

\* aspeed_scu_reset, the reset of the AST2400 and the AST2500
aspeed_scu_reset(s, g, rev, strap1, strap2, key) ==
    [memcpy_resets(s, class_resets(g), class_nr_regs(g))
        EXCEPT ![SILICON_REV] = rev,
               ![HW_STRAP1]   = strap1,
               ![HW_STRAP2]   = strap2,
               ![PROT_KEY]    = key]

\* Mutant of aspeed_ast2600_scu_reset: the configured revision goes to the
\* primary revision register, as in aspeed_scu_reset.
aspeed_ast2600_scu_reset_unpinned(s, g, rev, strap1, strap2, key) ==
    [memcpy_resets(s, class_resets(g), class_nr_regs(g))
        EXCEPT ![AST2600_SILICON_REV]  = rev,
               ![AST2600_HW_STRAP1]    = strap1,
               ![AST2600_HW_STRAP2]    = strap2,
               ![PROT_KEY]             = key]

\* Mutant of aspeed_ast2600_scu_reset: the store to the second revision
\* register is missing.
aspeed_ast2600_scu_reset_no_rev2(s, g, rev, strap1, strap2, key) ==
    [memcpy_resets(s, class_resets(g), class_nr_regs(g))
        EXCEPT ![AST2600_SILICON_REV]  = AST2600_A1_SILICON_REV,
               ![AST2600_HW_STRAP1]    = strap1,
               ![AST2600_HW_STRAP2]    = strap2,
               ![PROT_KEY]             = key]

\* aspeed_ast2600_scu_reset
aspeed_ast2600_scu_reset(s, g, rev, strap1, strap2, key) ==
    [memcpy_resets(s, class_resets(g), class_nr_regs(g))
        EXCEPT ![AST2600_SILICON_REV]  = AST2600_A1_SILICON_REV,
               ![AST2600_SILICON_REV2] = rev,
               ![AST2600_HW_STRAP1]    = strap1,
               ![AST2600_HW_STRAP2]    = strap2,
               ![PROT_KEY]             = key]

\* The statements of the reset function of the class: the memcpy and the
\* stores that follow it, numbered from 1.
reset_stmts(g) == IF g = "ast2600" THEN 6 ELSE 5

reset_stmt(s, g, pc, rev, strap1, strap2, key) ==
    IF g = "ast2600"
    THEN CASE pc = 1 -> memcpy_resets(s, class_resets(g), class_nr_regs(g))
           [] pc = 2 -> [s EXCEPT ![AST2600_SILICON_REV] =
                                      AST2600_A1_SILICON_REV]
           [] pc = 3 -> [s EXCEPT ![AST2600_SILICON_REV2] = rev]
           [] pc = 4 -> [s EXCEPT ![AST2600_HW_STRAP1] = strap1]
           [] pc = 5 -> [s EXCEPT ![AST2600_HW_STRAP2] = strap2]
           [] pc = 6 -> [s EXCEPT ![PROT_KEY] = key]
    ELSE CASE pc = 1 -> memcpy_resets(s, class_resets(g), class_nr_regs(g))
           [] pc = 2 -> [s EXCEPT ![SILICON_REV] = rev]
           [] pc = 3 -> [s EXCEPT ![HW_STRAP1] = strap1]
           [] pc = 4 -> [s EXCEPT ![HW_STRAP2] = strap2]
           [] pc = 5 -> [s EXCEPT ![PROT_KEY] = key]

\* Mutant of bql_free: an access does not wait for the lock.
bql_free_not_taken(holder) == TRUE

\* The lock that serializes the reset of the machine and the accesses of
\* the CPUs is free.  It is taken outside this file: by the memory core
\* around the MMIO handlers and by the main loop around the reset.
bql_free(holder) == holder = "free"

\* dc->reset: aspeed_scu_class_init sets aspeed_scu_reset, and
\* aspeed_2600_scu_class_init replaces it.
dc_reset(s, g, rev, strap1, strap2, key) ==
    IF g = "ast2600"
    THEN aspeed_ast2600_scu_reset(s, g, rev, strap1, strap2, key)
    ELSE aspeed_scu_reset(s, g, rev, strap1, strap2, key)

\* asc->ops->read
ops_read(g, s, offset, rnd) ==
    IF g = "ast2600"
    THEN aspeed_ast2600_scu_read(s, offset, rnd)
    ELSE aspeed_scu_read(s, offset, rnd)

\* Mutant of ops_write: the class of the AST2500 has the ops of the AST2400.
ops_write_2500_as_2400(g, s, offset, data) ==
    CASE g = "ast2400" -> aspeed_ast2400_scu_write(s, offset, data)
      [] g = "ast2500" -> aspeed_ast2400_scu_write(s, offset, data)
      [] g = "ast2600" -> aspeed_ast2600_scu_write(s, offset, data)

\* asc->ops->write
ops_write(g, s, offset, data) ==
    CASE g = "ast2400" -> aspeed_ast2400_scu_write(s, offset, data)
      [] g = "ast2500" -> aspeed_ast2500_scu_write(s, offset, data)
      [] g = "ast2600" -> aspeed_ast2600_scu_write(s, offset, data)

-----------------------------------------------------------------------------
(* The clock frequencies.  A uint32_t that is a frequency is held as its   *)
(* two 16-bit halves [hi, lo], so that the product of the input clock and  *)
(* the multiplier wraps at 2^32 as it does in C.                           *)

U32(n) == [hi |-> n \div 65536, lo |-> n % 65536]

\* a * m in uint32_t arithmetic, m a small number
Mul32(a, m) ==
    LET l == a.lo * m
        h == a.hi * m + l \div 65536
    IN  [hi |-> h % 65536, lo |-> l % 65536]

\* a / d in uint32_t arithmetic, d a small number that is not 0
Div32(a, d) ==
    [hi |-> a.hi \div d, lo |-> ((a.hi % d) * 65536 + a.lo) \div d]

\* The number a uint32_t below 2^31 is.
ToNat(a) == a.hi * 65536 + a.lo

\* (w >> lo) & (2^n - 1)
RECURSIVE Field(_, _, _)
Field(w, lo, n) ==
    IF n = 0 THEN 0
    ELSE Field(w, lo, n - 1) + (IF lo + n - 1 \in w THEN 2 ^ (n - 1) ELSE 0)

\* The bits of the strap and PLL registers, from include/hw/misc/aspeed_scu.h.
SCU_HW_STRAP_CLK_25M_IN      == BIT(23)
SCU_HW_STRAP_CLK_48M_IN      == BIT(18)
SCU_AST2400_H_PLL_PROGRAMMED == BIT(18)
SCU_AST2400_H_PLL_BYPASS_EN  == BIT(17)
SCU_AST2400_H_PLL_OFF        == BIT(16)
SCU_H_PLL_BYPASS_EN          == BIT(20)
SCU_H_PLL_OFF                == BIT(19)

SCU_CLK_GET_PCLK_DIV(x) == Field(x, 23, 3)

SCU_AST2400_HW_STRAP_GET_H_PLL_CLK(x) == Field(x, 8, 2)

\* x & mask, as a condition
Masked(x, mask) == x \cap mask # {}

\* Mutant of aspeed_scu_get_clkin: the 48 MHz strap is not looked at.
aspeed_scu_get_clkin_no_48m(strap1) ==
    IF Masked(strap1, SCU_HW_STRAP_CLK_25M_IN) THEN 25000000 ELSE 24000000

\* Mutant of aspeed_scu_get_clkin: the 48 MHz strap is tested first.
aspeed_scu_get_clkin_48m_first(strap1) ==
    IF Masked(strap1, SCU_HW_STRAP_CLK_48M_IN) THEN 48000000
    ELSE IF Masked(strap1, SCU_HW_STRAP_CLK_25M_IN) THEN 25000000
    ELSE 24000000

\* aspeed_scu_get_clkin; strap1 is s->hw_strap1, the property
aspeed_scu_get_clkin(strap1) ==
    IF Masked(strap1, SCU_HW_STRAP_CLK_25M_IN) THEN 25000000
    ELSE IF Masked(strap1, SCU_HW_STRAP_CLK_48M_IN) THEN 48000000
    ELSE 24000000

\* Strapped frequencies for the AST2400 in MHz.
hpll_ast2400_freqs ==
    << <<384, 360, 336, 408>>,    \* 24MHz or 48MHz
       <<400, 375, 350, 425>> >>  \* 25MHz

\* aspeed_2400_scu_calc_hpll
aspeed_2400_scu_calc_hpll(strap1, hpll_reg) ==
    LET clkin == aspeed_scu_get_clkin(strap1) IN
    IF Masked(hpll_reg, SCU_AST2400_H_PLL_OFF)
    THEN U32(0)
    ELSE IF Masked(hpll_reg, SCU_AST2400_H_PLL_PROGRAMMED)
    THEN LET n  == Field(hpll_reg, 5, 6)
             od == Field(hpll_reg, 4, 1)
             d  == Field(hpll_reg, 0, 4)
             multiplier ==
                 IF ~Masked(hpll_reg, SCU_AST2400_H_PLL_BYPASS_EN)
                 THEN (2 - od) * ((n + 2) \div (d + 1))
                 ELSE 1
         IN  Mul32(U32(clkin), multiplier)
    ELSE LET clk_25m_in  == IF Masked(strap1, SCU_HW_STRAP_CLK_25M_IN)
                            THEN 1 ELSE 0
             freq_select == SCU_AST2400_HW_STRAP_GET_H_PLL_CLK(strap1)
         IN  U32(hpll_ast2400_freqs[clk_25m_in + 1][freq_select + 1] * 1000000)

\* aspeed_2500_scu_calc_hpll
aspeed_2500_scu_calc_hpll(strap1, hpll_reg) ==
    LET clkin == aspeed_scu_get_clkin(strap1) IN
    IF Masked(hpll_reg, SCU_H_PLL_OFF)
    THEN U32(0)
    ELSE LET p == Field(hpll_reg, 13, 6)
             m == Field(hpll_reg, 5, 8)
             n == Field(hpll_reg, 0, 5)
             multiplier ==
                 IF ~Masked(hpll_reg, SCU_H_PLL_BYPASS_EN)
                 THEN ((m + 1) \div (n + 1)) \div (p + 1)
                 ELSE 1
         IN  Mul32(U32(clkin), multiplier)

\* The numbers aspeed_2400_scu_calc_hpll divides by on the path it takes
\* for hpll_reg: d + 1, when the PLL is programmed and not bypassed.
aspeed_2400_scu_calc_hpll_divisors(hpll_reg) ==
    IF /\ ~Masked(hpll_reg, SCU_AST2400_H_PLL_OFF)
       /\ Masked(hpll_reg, SCU_AST2400_H_PLL_PROGRAMMED)
       /\ ~Masked(hpll_reg, SCU_AST2400_H_PLL_BYPASS_EN)
    THEN {Field(hpll_reg, 0, 4) + 1}
    ELSE {}

\* The indices [clk_25m_in][freq_select] of its lookup in
\* hpll_ast2400_freqs, when it comes to the strapped frequency.
aspeed_2400_scu_calc_hpll_index(strap1, hpll_reg) ==
    IF \/ Masked(hpll_reg, SCU_AST2400_H_PLL_OFF)
       \/ Masked(hpll_reg, SCU_AST2400_H_PLL_PROGRAMMED)
    THEN {}
    ELSE {<<IF Masked(strap1, SCU_HW_STRAP_CLK_25M_IN) THEN 1 ELSE 0,
            SCU_AST2400_HW_STRAP_GET_H_PLL_CLK(strap1)>>}

\* The numbers aspeed_2500_scu_calc_hpll divides by: n + 1 and p + 1, when
\* the PLL is neither off nor bypassed.
aspeed_2500_scu_calc_hpll_divisors(hpll_reg) ==
    IF /\ ~Masked(hpll_reg, SCU_H_PLL_OFF)
       /\ ~Masked(hpll_reg, SCU_H_PLL_BYPASS_EN)
    THEN {Field(hpll_reg, 0, 5) + 1, Field(hpll_reg, 13, 6) + 1}
    ELSE {}

\* The divisors of asc->calc_hpll
class_calc_hpll_divisors(g, hpll_reg) ==
    IF g = "ast2400"
    THEN aspeed_2400_scu_calc_hpll_divisors(hpll_reg)
    ELSE aspeed_2500_scu_calc_hpll_divisors(hpll_reg)

\* asc->calc_hpll
class_calc_hpll(g, strap1, hpll_reg) ==
    CASE g = "ast2400" -> aspeed_2400_scu_calc_hpll(strap1, hpll_reg)
      [] g = "ast2500" -> aspeed_2500_scu_calc_hpll(strap1, hpll_reg)
      [] g = "ast2600" -> aspeed_2500_scu_calc_hpll(strap1, hpll_reg)

\* Mutant of aspeed_scu_get_apb_freq: the input clock is selected by the
\* hardware strap 1 register, s->regs[HW_STRAP1].
aspeed_scu_get_apb_freq_strap_reg(g, s, strap1) ==
    LET hpll == class_calc_hpll(g, s[HW_STRAP1], s[HPLL_PARAM])
    IN  [ret  |-> ToNat(Div32(Div32(hpll, SCU_CLK_GET_PCLK_DIV(s[CLK_SEL]) + 1),
                              class_apb_divider(g))),
         refs |-> {HPLL_PARAM, CLK_SEL, HW_STRAP1},
         hpll_reg |-> s[HPLL_PARAM],
         clkin |-> aspeed_scu_get_clkin(s[HW_STRAP1]),
         hpll |-> hpll,
         divs |-> class_calc_hpll_divisors(g, s[HPLL_PARAM])
                  \cup {SCU_CLK_GET_PCLK_DIV(s[CLK_SEL]) + 1,
                        class_apb_divider(g)},
         index |-> IF g = "ast2400"
                   THEN aspeed_2400_scu_calc_hpll_index(s[HW_STRAP1],
                                                        s[HPLL_PARAM])
                   ELSE {}]

\* aspeed_scu_get_apb_freq: the frequency it returns and the registers it
\* reads, with the word it gives asc->calc_hpll, the input clock calc_hpll
\* gets from aspeed_scu_get_clkin, the frequency calc_hpll returns, the
\* numbers the call divides by and the indices of its table lookup.  A
\* division by zero is undefined: no frequency is returned, and ret is 0.
aspeed_scu_get_apb_freq(g, s, strap1) ==
    LET hpll == class_calc_hpll(g, strap1, s[HPLL_PARAM])
        pclk == SCU_CLK_GET_PCLK_DIV(s[CLK_SEL]) + 1
        apb  == class_apb_divider(g)
    IN  [ret  |-> IF pclk = 0 \/ apb = 0 THEN 0
                  ELSE ToNat(Div32(Div32(hpll, pclk), apb)),
         refs |-> {HPLL_PARAM, CLK_SEL},
         hpll_reg |-> s[HPLL_PARAM],
         clkin |-> aspeed_scu_get_clkin(strap1),
         hpll |-> hpll,
         divs |-> class_calc_hpll_divisors(g, s[HPLL_PARAM]) \cup {pclk, apb},
         index |-> IF g = "ast2400"
                   THEN aspeed_2400_scu_calc_hpll_index(strap1, s[HPLL_PARAM])
                   ELSE {}]

aspeed_silicon_revs ==
    {AST2400_A0_SILICON_REV, AST2400_A1_SILICON_REV, AST2500_A0_SILICON_REV,
     AST2500_A1_SILICON_REV, AST2600_A0_SILICON_REV, AST2600_A1_SILICON_REV}

\* Mutant of is_supported_silicon_rev: the function returns true after the
\* loop too.
is_supported_silicon_rev_true(rev) == rev \in aspeed_silicon_revs \/ TRUE

is_supported_silicon_rev(rev) == rev \in aspeed_silicon_revs

-----------------------------------------------------------------------------
(* Inputs *)

\* The property values a board gives the device: a supported revision with
\* the key left locked, another one booting unlocked (hw-prot-key set to
\* the unlock constant, as boards do when they start a kernel directly),
\* and an unknown revision.
Boards ==
    { [rev |-> AST2500_A1_SILICON_REV, strap1 |-> Word(\HF100, \HD296),
       strap2 |-> Word(\H0000, \H0041), key |-> Zero],
      [rev |-> AST2600_A0_SILICON_REV, strap1 |-> Word(\H0000, \H00C0),
       strap2 |-> Word(\H0000, \H0003), key |-> ASPEED_SCU_PROT_KEY],
      [rev |-> Word(\H0301, \H0003), strap1 |-> Zero,
       strap2 |-> Zero, key |-> Zero] }

\* Values written to the protection key register.
KeyData == {ASPEED_SCU_PROT_KEY, One, ASPEED_SCU_PROT_KEY \cup BIT(0)}

\* Values written to the other registers.
D1 == Word(\H0008, \H0011)
D2 == Word(\H8000, \H00C4)

\* Values drawn by the random source.
RandomData == {Word(\H5EED, \H0001), Word(\H0BAD, \HCAFE)}

RngReg(g) == IF g = "ast2600" THEN AST2600_RNG_DATA ELSE RNG_DATA

\* What the random source can return during a read: it is called by a read
\* of the random data register only.
Draws(g, offset) ==
    IF TO_REG(offset) = RngReg(g) THEN RandomData ELSE {Zero}

Access(offsets, size, datas) ==
    {[offset |-> o, size |-> size, data |-> d] : o \in offsets, d \in datas}

\* The offsets guests write on the AST2400 and the AST2500.
OldWriteOffsets ==
    {\H04, \H14, \H24, \H50, \H70, \H7C, \H78, \HC0, \HE0, \H100, \H104,
     \H150, \H1A8, \HFFC}

\* The offsets guests write on the AST2600.
NewWriteOffsets ==
    {\H04, \H14, \H40, \H44, \H50, \H54, \H80, \H84, \H90, \H94, \H200,
     \H204, \H500, \H504, \H508, \H510, \H514, \H518, \H540, \H5B0, \HE20,
     \HFFC}

Writes(g) ==
    CASE g = "ast2400" ->
            Access({\H00}, 4, KeyData) \cup Access(OldWriteOffsets, 4, {D1})
            \cup Access({\H05}, 1, {Word(0, \H11)})
            \cup Access({\H72}, 2, {Word(0, \HC4)})
            \cup Access({\H02}, 2, {One})
      [] g = "ast2500" ->
            Access({\H00}, 4, KeyData) \cup Access(OldWriteOffsets, 4, {D1})
      [] g = "ast2600" ->
            Access({\H00}, 4, KeyData) \cup Access(NewWriteOffsets, 4, {D1})
            \cup Access({\H40, \H44, \H500, \H504}, 4, {D2})

Reads(g) ==
    CASE g = "ast2400" ->
            Access({\H00, \H04, \H70, \H78, \H7C, \HC0, \H1A8, \HFFC},
                   4, {Zero})
            \cup Access({\H01}, 1, {Zero})
            \cup Access({\H7A}, 2, {Zero})
      [] g = "ast2500" ->
            Access({\H00, \H04, \H70, \H78, \H7C, \HC0, \H1A8, \HFFC},
                   4, {Zero})
      [] g = "ast2600" ->
            Access({\H00, \H04, \H14, \H40, \H44, \H204, \H224, \H244,
                    \H500, \H540, \HE20, \HFFC}, 4, {Zero})

\* The property values of boards that differ in their clock straps: the
\* input clock flags (bits 23 and 18) and the H-PLL selection of the
\* AST2400 (bits 9:8).
ClockStraps ==
    {Zero, BIT(23), BIT(18), BIT(23) \cup BIT(18) \cup BIT(8), BIT(9),
     BIT(18) \cup BIT(8) \cup BIT(9)}

ClockBoards ==
    {[rev |-> AST2500_A1_SILICON_REV, strap1 |-> st, strap2 |-> Zero,
      key |-> ASPEED_SCU_PROT_KEY] : st \in ClockStraps}

\* Values written to the H-PLL parameter register: the reset values of the
\* AST2400 and the AST2500, values with the off bit (16 on the AST2400, 19
\* on the others), with the bypass bit (17, with and without the programmed
\* bit 18, on the AST2400; 20 on the others), and the largest multipliers.
PllData ==
    {Word(\H0000, \H0291), Word(\H9300, \H0400),
     BIT(16) \cup Word(\H0000, \H0291), BIT(19) \cup Word(\H9300, \H0400),
     Word(\H001F, \HFFFF),
     BIT(17) \cup BIT(18) \cup Word(\H0000, \H07E0),
     BIT(17) \cup Word(\H0000, \H0291),
     BIT(20) \cup Word(\H0000, \H1FE0),
     BIT(18) \cup Word(\H0000, \H07E0),
     Word(\H0000, \H1FE0)}

\* Values written to the clock selection register: PCLK dividers 0, 5, 7.
ClkSelData == {Zero, BIT(23) \cup BIT(25), Word(\HF3F4, \H0000)}

\* The two input clock flags, written to the strap registers.
StrapFlags == BIT(23) \cup BIT(18)

\* The writes of a guest that programs the clocks and rewrites the input
\* clock flags of the hardware strap 1 register: through the register
\* itself and, to clear them, through the silicon revision register of the
\* AST2500 and the clear register of the AST2600.
ClockWrites(g) ==
    Access({\H24}, 4, PllData) \cup Access({\H08}, 4, ClkSelData)
    \cup (IF g = "ast2600"
          THEN Access({\H200}, 4, {BIT(19) \cup Word(\H1000, \H405F),
                                    BIT(20) \cup Word(\H1000, \H405F)})
               \cup Access({\H300}, 4, {BIT(23) \cup BIT(25)})
               \cup Access({\H500, \H504}, 4, {StrapFlags})
          ELSE Access({\H70, \H7C}, 4, {StrapFlags}))

\* The accesses of a CPU that a reset of the machine can meet.
ResetAccesses(g) ==
    {[op |-> "read", offset |-> o, data |-> Zero] :
        o \in {\H00, \H04, \H14, \H70, \H7C}}
    \cup {[op |-> "write", offset |-> \H04, data |-> D1],
          [op |-> "write", offset |-> \H00, data |-> ASPEED_SCU_PROT_KEY]}

-----------------------------------------------------------------------------
(* The device *)

\* The registers the reset functions write: the words memcpy copies and
\* the registers seeded from the properties.
aspeed_scu_reset_refs(g) ==
    (0..(class_nr_regs(g) - 1))
    \cup {SILICON_REV, HW_STRAP1, HW_STRAP2, PROT_KEY}

aspeed_ast2600_scu_reset_refs(g) ==
    (0..(class_nr_regs(g) - 1))
    \cup {AST2600_SILICON_REV, AST2600_SILICON_REV2, AST2600_HW_STRAP1,
          AST2600_HW_STRAP2, PROT_KEY}

\* A call without arguments or result.  rnd is the value the random source
\* was ready to return, draws the number of times it was called, freq the
\* frequency returned, refs the indices of s->regs the call read or wrote.
NoOp(op) ==
    [op |-> op, offset |-> 0, size |-> 0, data |-> Zero, ret |-> Zero,
     log |-> {}, rnd |-> Zero, draws |-> 0, freq |-> 0, refs |-> {},
     hpll_reg |-> Zero, clkin |-> 0, hpll |-> U32(0), divs |-> {},
     index |-> {}]

\* No access is in flight.
NoAccess ==
    [op |-> "none", offset |-> 0, data |-> Zero, overlap |-> FALSE,
     ran |-> FALSE, ret |-> Zero]

\* s->regs, an array of ASPEED_AST2600_SCU_NR_REGS words in every class.
regs_indices == 0..(ASPEED_AST2600_SCU_NR_REGS - 1)

\* The instance as object creation leaves it: zeroed, properties set.
InitOn(boards) ==
    /\ gen \in Gens
    /\ \E b \in boards :
          /\ silicon_rev = b.rev
          /\ hw_strap1 = b.strap1
          /\ hw_strap2 = b.strap2
          /\ hw_prot_key = b.key
    /\ iomem = FALSE
    /\ errp = FALSE
    /\ regs = [r \in regs_indices |-> Zero]
    /\ pre = regs
    /\ last = NoOp("init")
    /\ nwrites = 0
    /\ bql = "free"
    /\ reset_pc = 0
    /\ reset_from = regs
    /\ inflight = NoAccess

Init == InitOn(Boards)

\* The instance of a board of ClockBoards.
InitClocks == InitOn(ClockBoards)

\* aspeed_scu_realize
Realize ==
    /\ last.op = "init"
    /\ IF is_supported_silicon_rev(silicon_rev)
       THEN iomem' = TRUE /\ errp' = FALSE
       ELSE iomem' = FALSE /\ errp' = TRUE
    /\ last' = NoOp("realize")
    /\ pre' = regs
    /\ UNCHANGED <<gen, silicon_rev, hw_strap1, hw_strap2, hw_prot_key, regs,
                   nwrites, cvars>>

\* The device is called when no call is in progress; the machine resets a
\* realized device before the guest runs.
Idle == iomem /\ last.op = "idle"

CanReset == iomem /\ last.op \in {"realize", "idle"}

\* dc->reset of a realized device: aspeed_scu_reset, and for the AST2600
\* aspeed_ast2600_scu_reset.
Reset ==
    /\ CanReset
    /\ gen \in {"ast2400", "ast2500"}
    /\ regs' = aspeed_scu_reset(regs, gen, silicon_rev, hw_strap1, hw_strap2,
                                hw_prot_key)
    /\ pre' = regs
    /\ last' = [NoOp("reset") EXCEPT !.refs = aspeed_scu_reset_refs(gen)]
    /\ nwrites' = 0
    /\ UNCHANGED <<gen, silicon_rev, hw_strap1, hw_strap2, hw_prot_key, iomem,
                   errp, cvars>>

Reset2600 ==
    /\ CanReset
    /\ gen = "ast2600"
    /\ regs' = aspeed_ast2600_scu_reset(regs, gen, silicon_rev, hw_strap1,
                                        hw_strap2, hw_prot_key)
    /\ pre' = regs
    /\ last' = [NoOp("reset")
                   EXCEPT !.refs = aspeed_ast2600_scu_reset_refs(gen)]
    /\ nwrites' = 0
    /\ UNCHANGED <<gen, silicon_rev, hw_strap1, hw_strap2, hw_prot_key, iomem,
                   errp, cvars>>

\* An MMIO read the memory core dispatches to .read
Read ==
    /\ Idle
    /\ \E a \in Reads(gen) : \E rnd \in Draws(gen, a.offset) :
          /\ ops_valid(gen, a.offset, a.size)
          /\ LET r == ops_read(gen, regs, a.offset, rnd)
             IN  /\ regs' = r.regs
                 /\ last' = [NoOp("read")
                                EXCEPT !.offset = a.offset, !.size = a.size,
                                       !.ret = r.ret, !.log = r.log,
                                       !.rnd = rnd, !.draws = r.draws,
                                       !.refs = r.refs]
    /\ pre' = regs
    /\ UNCHANGED <<gen, silicon_rev, hw_strap1, hw_strap2, hw_prot_key, iomem,
                   errp, nwrites, cvars>>

\* An MMIO write the memory core dispatches to .write
WriteOf(accesses) ==
    /\ Idle
    /\ nwrites < MaxWrites
    /\ \E a \in accesses :
          /\ ops_valid(gen, a.offset, a.size)
          /\ FitsSize(a.data, a.size)
          /\ LET w == ops_write(gen, regs, a.offset, a.data)
             IN  /\ regs' = w.regs
                 /\ last' = [NoOp("write")
                                EXCEPT !.offset = a.offset, !.size = a.size,
                                       !.data = a.data, !.log = w.log,
                                       !.refs = w.refs]
    /\ pre' = regs
    /\ nwrites' = nwrites + 1
    /\ UNCHANGED <<gen, silicon_rev, hw_strap1, hw_strap2, hw_prot_key, iomem,
                   errp, cvars>>

Write == WriteOf(Writes(gen))

\* A write of a guest that programs the clocks.
WriteClock == WriteOf(ClockWrites(gen))

\* A sibling device (a timer) asks for the APB frequency:
\* aspeed_scu_get_apb_freq
GetApbFreq ==
    /\ Idle
    /\ LET f == aspeed_scu_get_apb_freq(gen, regs, hw_strap1)
       IN  last' = [NoOp("freq")
                       EXCEPT !.freq = f.ret, !.refs = f.refs,
                              !.hpll_reg = f.hpll_reg, !.clkin = f.clkin,
                              !.hpll = f.hpll, !.divs = f.divs,
                              !.index = f.index]
    /\ pre' = regs
    /\ UNCHANGED <<gen, silicon_rev, hw_strap1, hw_strap2, hw_prot_key, iomem,
                   errp, regs, nwrites, cvars>>

\* The call returns to the memory core or to the reset of the machine.
Return ==
    /\ last.op \in {"reset", "read", "write", "freq"}
    /\ last' = NoOp("idle")
    /\ pre' = regs
    /\ UNCHANGED <<gen, silicon_rev, hw_strap1, hw_strap2, hw_prot_key, iomem,
                   errp, regs, nwrites, cvars>>

Next ==
    Realize \/ Reset \/ Reset2600 \/ Read \/ Write \/ GetApbFreq \/ Return

Spec == Init /\ [][Next]_vars

\* The reset of the machine begins: the main loop holds the lock and calls
\* dc->reset.  An access a CPU has issued and that has not run now
\* overlaps a reset.
ResetEnter ==
    /\ iomem
    /\ reset_pc = 0
    /\ bql_free(bql)
    /\ bql' = "reset"
    /\ reset_pc' = 1
    /\ reset_from' = regs
    /\ inflight' = IF inflight.op # "none" /\ ~inflight.ran
                   THEN [inflight EXCEPT !.overlap = TRUE]
                   ELSE inflight
    /\ UNCHANGED <<gen, silicon_rev, hw_strap1, hw_strap2, hw_prot_key, iomem,
                   errp, regs, pre, last, nwrites>>

\* The next statement of the reset function; the lock is released after
\* the last.
ResetStep ==
    /\ reset_pc > 0
    /\ regs' = reset_stmt(regs, gen, reset_pc, silicon_rev, hw_strap1,
                          hw_strap2, hw_prot_key)
    /\ IF reset_pc = reset_stmts(gen)
       THEN /\ reset_pc' = 0
            /\ bql' = "free"
            /\ nwrites' = 0
            /\ last' = NoOp("reset")
       ELSE /\ reset_pc' = reset_pc + 1
            /\ UNCHANGED <<bql, nwrites, last>>
    /\ UNCHANGED <<gen, silicon_rev, hw_strap1, hw_strap2, hw_prot_key, iomem,
                   errp, pre, reset_from, inflight>>

\* A CPU of the guest, which runs once the machine has been reset, issues
\* an access.
Issue ==
    /\ iomem
    /\ last.op \notin {"init", "realize"}
    /\ inflight.op = "none"
    /\ \E a \in ResetAccesses(gen) :
          /\ a.op = "write" => nwrites < MaxWrites
          /\ inflight' = [op |-> a.op, offset |-> a.offset, data |-> a.data,
                          overlap |-> reset_pc # 0, ran |-> FALSE,
                          ret |-> Zero]
    /\ UNCHANGED <<gen, silicon_rev, hw_strap1, hw_strap2, hw_prot_key, iomem,
                   errp, regs, pre, last, nwrites, bql, reset_pc, reset_from>>

\* The access runs: the memory core takes the lock, calls the handler and
\* releases the lock.
Run ==
    /\ inflight.op \in {"read", "write"}
    /\ ~inflight.ran
    /\ bql_free(bql)
    /\ IF inflight.op = "read"
       THEN LET r == ops_read(gen, regs, inflight.offset, Zero)
            IN  /\ regs' = r.regs
                /\ last' = [NoOp("read")
                               EXCEPT !.offset = inflight.offset, !.size = 4,
                                      !.ret = r.ret, !.log = r.log,
                                      !.draws = r.draws, !.refs = r.refs]
                /\ inflight' = [inflight EXCEPT !.ran = TRUE, !.ret = r.ret]
                /\ UNCHANGED nwrites
       ELSE LET w == ops_write(gen, regs, inflight.offset, inflight.data)
            IN  /\ regs' = w.regs
                /\ last' = [NoOp("write")
                               EXCEPT !.offset = inflight.offset, !.size = 4,
                                      !.data = inflight.data, !.log = w.log,
                                      !.refs = w.refs]
                /\ inflight' = [inflight EXCEPT !.ran = TRUE]
                /\ nwrites' = nwrites + 1
    /\ pre' = regs
    /\ UNCHANGED <<gen, silicon_rev, hw_strap1, hw_strap2, hw_prot_key, iomem,
                   errp, bql, reset_pc, reset_from>>

\* The access is complete and the CPU goes on.
Retire ==
    /\ inflight.ran
    /\ inflight' = NoAccess
    /\ UNCHANGED <<gen, silicon_rev, hw_strap1, hw_strap2, hw_prot_key, iomem,
                   errp, regs, pre, last, nwrites, bql, reset_pc, reset_from>>

\* The device while the machine is reset under a running CPU.
NextReset == Realize \/ ResetEnter \/ ResetStep \/ Issue \/ Run \/ Retire

SpecReset == Init /\ [][NextReset]_vars

\* The device on the boards of ClockBoards, its guest programming the
\* clocks and a sibling device asking for the APB frequency.
NextClocks ==
    Realize \/ Reset \/ Reset2600 \/ WriteClock \/ GetApbFreq \/ Return

SpecClocks == InitClocks /\ [][NextClocks]_vars

-----------------------------------------------------------------------------
(* Properties *)

LastReg == TO_REG(last.offset)

IsWrite == last.op = "write"

IsReset == last.op = "reset"

InRange(g) == 0..(class_nr_regs(g) - 1)

ZeroFile(g) == [r \in regs_indices |-> Zero]

\* C1: on the AST2400 and the AST2500, a write to a register strictly
\* between the protection key register and the CPU2 control block, made
\* while the key register is 0, leaves the register file unchanged.
C1_LockedWriteIsNoOp ==
    (/\ gen \in {"ast2400", "ast2500"}
     /\ IsWrite
     /\ LastReg > PROT_KEY
     /\ LastReg < CPU2_CTRL
     /\ pre[PROT_KEY] = Zero)
    => regs = pre

\* C2: in every state of every variant the protection key register holds
\* 0 or 1.
C2_KeyIsZeroOrOne == regs[PROT_KEY] \in {Zero, One}

\* C3: on every variant, after a write to the protection key register a
\* read of it returns 1 when the value written is the unlock constant and 0
\* for any other value, whatever the register held before.
C3_KeyWriteReadback ==
    (IsWrite /\ LastReg = PROT_KEY)
    => \A rnd \in RandomData :
          ops_read(gen, regs, \H00, rnd).ret =
              IF last.data = ASPEED_SCU_PROT_KEY THEN One ELSE Zero

\* C3 happens: the unlock constant is written to a locked AST2600.
C3_Witness ==
    /\ gen = "ast2600"
    /\ IsWrite
    /\ LastReg = PROT_KEY
    /\ last.data = ASPEED_SCU_PROT_KEY
    /\ pre[PROT_KEY] = Zero
    /\ regs[PROT_KEY] = One

\* The registers reset seeds from the properties.
SeededRegs(g) ==
    IF g = "ast2600"
    THEN [rev |-> AST2600_SILICON_REV2, strap1 |-> AST2600_HW_STRAP1,
          strap2 |-> AST2600_HW_STRAP2, key |-> AST2600_PROT_KEY]
    ELSE [rev |-> SILICON_REV, strap1 |-> HW_STRAP1,
          strap2 |-> HW_STRAP2, key |-> PROT_KEY]

\* The reset value of the class's table, or the property for a seeded
\* register.
TableOrSeed(g, reg) ==
    LET sd == SeededRegs(g) IN
    CASE reg = sd.rev    -> silicon_rev
      [] reg = sd.strap1 -> hw_strap1
      [] reg = sd.strap2 -> hw_strap2
      [] reg = sd.key    -> hw_prot_key
      [] OTHER           -> class_resets(g)[reg]

PllExtRegs(g) ==
    IF g = "ast2600"
    THEN {AST2600_HPLL_EXT, AST2600_MPLL_EXT, AST2600_EPLL_EXT}
    ELSE {}

\* C4 as claimed: after reset a read of every register index below the
\* register count returns the table's reset value, or the property for the
\* four seeded registers.
C4_ReadAfterResetIsTable ==
    IsReset
    => \A reg \in InRange(gen), rnd \in RandomData :
          ops_read(gen, regs, 4 * reg, rnd).ret = TableOrSeed(gen, reg)

\* C4 as amended: after reset a read of a register index below the register
\* count returns the table's reset value, or the property for the four
\* seeded registers (on the AST2600 the revision property is in the second
\* revision register), except that the random data register returns the
\* value drawn by the read, the AST2600's PLL extension registers return
\* the reset value with bit 31 set, and the AST2600's first revision
\* register returns the A1 revision.
C4_ReadAfterReset ==
    IsReset
    => \A reg \in InRange(gen), rnd \in RandomData :
          ops_read(gen, regs, 4 * reg, rnd).ret =
              CASE reg = RngReg(gen) -> rnd
                [] reg \in PllExtRegs(gen) ->
                      class_resets(gen)[reg] \cup BIT(31)
                [] gen = "ast2600" /\ reg = AST2600_SILICON_REV ->
                      AST2600_A1_SILICON_REV
                [] OTHER -> TableOrSeed(gen, reg)

\* C4 happens: an AST2600 whose revision property is not A1 and whose PLL
\* parameter register the guest had overwritten is reset.
C4_Witness ==
    /\ gen = "ast2600"
    /\ IsReset
    /\ silicon_rev # AST2600_A1_SILICON_REV
    /\ pre[AST2600_HPLL_PARAM] = D1
    /\ regs[AST2600_HPLL_PARAM] = ast2600_a1_resets[AST2600_HPLL_PARAM]

\* C5: the register file reset leaves is the one reset makes of a zeroed
\* file, so it keeps nothing of the file before, and resetting it again
\* leaves it as it is.
C5_ResetTotalIdempotent ==
    IsReset
    => /\ regs = dc_reset(ZeroFile(gen), gen, silicon_rev, hw_strap1,
                          hw_strap2, hw_prot_key)
       /\ regs = dc_reset(regs, gen, silicon_rev, hw_strap1, hw_strap2,
                          hw_prot_key)

\* C5 happens: a reset follows guest writes to the wake-up enable and the
\* key register of an AST2500.
C5_Witness ==
    /\ gen = "ast2500"
    /\ IsReset
    /\ pre[WAKEUP_EN] = D1
    /\ pre[PROT_KEY] = One
    /\ regs[WAKEUP_EN] = Zero
    /\ regs[PROT_KEY] = hw_prot_key

\* C6: on the AST2600 a write to a register other than the protection key,
\* made while the key register is 0, leaves the register file the same
\* write leaves when the key register is 1 (the key register aside).
C6_LockedWriteApplied ==
    (/\ gen = "ast2600"
     /\ IsWrite
     /\ LastReg # AST2600_PROT_KEY
     /\ pre[AST2600_PROT_KEY] = Zero)
    => regs = [aspeed_ast2600_scu_write(
                   [pre EXCEPT ![AST2600_PROT_KEY] = One],
                   last.offset, last.data).regs
                  EXCEPT ![AST2600_PROT_KEY] = Zero]

\* C6 happens: a locked AST2600 logs the lock and stores the value written
\* to its PLL parameter register.
C6_Witness ==
    /\ gen = "ast2600"
    /\ IsWrite
    /\ LastReg = AST2600_HPLL_PARAM
    /\ pre[AST2600_PROT_KEY] = Zero
    /\ "locked" \in last.log
    /\ pre[LastReg] # last.data
    /\ regs[LastReg] = last.data

C7_SetRegs ==
    {AST2600_SYS_RST_CTRL, AST2600_SYS_RST_CTRL2, AST2600_CLK_STOP_CTRL,
     AST2600_CLK_STOP_CTRL2}

\* C7: on the AST2600, for each of the four control registers with a clear
\* register, a write of v to the register makes it r | v, r being what it
\* held, and a write of v to its clear register then makes it (r | v) & ~v:
\* the bits of v are 0 and the other bits are those of r.
C7_W1SThenW1C ==
    (gen = "ast2600" /\ IsWrite /\ LastReg \in C7_SetRegs)
    => LET reg   == LastReg
           v     == last.data
           r     == pre[reg]
           after == aspeed_ast2600_scu_write(regs, last.offset + 4, v).regs
       IN  /\ regs[reg] = r \cup v
           /\ after[reg] = (r \cup v) \ v
           /\ \A b \in 0..31 :
                 IF b \in v THEN b \notin after[reg]
                 ELSE b \in after[reg] <=> b \in r

\* C7 happens: the bits set in clock stop control 2 are cleared again.
C7_Witness ==
    /\ gen = "ast2600"
    /\ IsWrite
    /\ LastReg = AST2600_CLK_STOP_CTRL2_CLR
    /\ last.data = D1
    /\ D1 \subseteq pre[AST2600_CLK_STOP_CTRL2]
    /\ regs[AST2600_CLK_STOP_CTRL2] = ast2600_a1_resets[AST2600_CLK_STOP_CTRL2] \ D1

C8_ClearRegs ==
    {AST2600_SYS_RST_CTRL_CLR, AST2600_SYS_RST_CTRL2_CLR,
     AST2600_CLK_STOP_CTRL_CLR, AST2600_CLK_STOP_CTRL2_CLR,
     AST2600_HW_STRAP1_CLR, AST2600_HW_STRAP2_CLR}

\* C8: on the AST2600 each of the six clear registers holds its reset value
\* in every state, and a write to one changes the register one word below
\* it and no other.
C8_ClearRegsStateless ==
    gen = "ast2600"
    => /\ \A c \in C8_ClearRegs : regs[c] = ast2600_a1_resets[c]
       /\ (IsWrite /\ LastReg \in C8_ClearRegs)
          => regs = [pre EXCEPT ![LastReg - 1] = @ \ last.data]

\* C8 happens: a write to the strap 1 clear register clears a bit of the
\* strap 1 register.
C8_Witness ==
    /\ gen = "ast2600"
    /\ IsWrite
    /\ LastReg = AST2600_HW_STRAP1_CLR
    /\ regs[AST2600_HW_STRAP1] # pre[AST2600_HW_STRAP1]
    /\ regs[AST2600_HW_STRAP1_CLR] = Zero

C9_Straps == {AST2600_HW_STRAP1, AST2600_HW_STRAP2}

\* C9: on the AST2600 a write to a strap register leaves the register file
\* unchanged while the strap's protection register is not zero, and ORs the
\* value into the strap register while it is zero.
C9_StrapSetGated ==
    (gen = "ast2600" /\ IsWrite /\ LastReg \in C9_Straps)
    => IF pre[LastReg + 2] # Zero
       THEN regs = pre
       ELSE regs = [pre EXCEPT ![LastReg] = @ \cup last.data]

\* C9 happens: a write that would set bits of strap 1 is dropped under
\* protection.
C9_Witness ==
    /\ gen = "ast2600"
    /\ IsWrite
    /\ LastReg = AST2600_HW_STRAP1
    /\ pre[AST2600_HW_STRAP1_PROT] # Zero
    /\ ~(last.data \subseteq pre[AST2600_HW_STRAP1])
    /\ regs = pre

\* C10: on the AST2600, while a strap's protection register is not zero,
\* neither a write to the strap register nor a write to its clear register
\* changes the strap register.
C10_StrapGatedBothWays ==
    \A strap \in C9_Straps :
        (/\ gen = "ast2600"
         /\ IsWrite
         /\ LastReg \in {strap, strap + 1}
         /\ pre[strap + 2] # Zero)
        => regs[strap] = pre[strap]

\* C11: on every variant a read of the random data register calls the
\* random source once, stores the value drawn in the register and returns
\* it, changing no other register; a read of any other register does not
\* call the random source and leaves the random data register as it was.
C11_RandomRead ==
    (last.op = "read" /\ LastReg < class_nr_regs(gen))
    => IF LastReg = RngReg(gen)
       THEN /\ last.draws = 1
            /\ last.ret = last.rnd
            /\ regs = [pre EXCEPT ![RngReg(gen)] = last.rnd]
       ELSE /\ last.draws = 0
            /\ regs[RngReg(gen)] = pre[RngReg(gen)]

\* C11 happens: a second read of the random data register of an AST2500
\* draws a value other than the one the first read had left there.
C11_Witness ==
    /\ gen = "ast2500"
    /\ last.op = "read"
    /\ LastReg = RNG_DATA
    /\ pre[RNG_DATA] \in RandomData
    /\ pre[RNG_DATA] # last.rnd
    /\ regs[RNG_DATA] = last.rnd
    /\ last.ret = last.rnd

\* The H-PLL parameter register of each variant.
HpllReg(g) == IF g = "ast2600" THEN AST2600_HPLL_PARAM ELSE HPLL_PARAM

\* The off bit of the H-PLL parameter register of each variant.
HpllOff(g) == IF g = "ast2400" THEN BIT(16) ELSE BIT(19)

\* C12: on every variant the APB frequency is 0 when the off bit of the
\* variant's H-PLL parameter register is set.
C12_OffGivesZero ==
    (last.op = "freq" /\ HpllOff(gen) \subseteq pre[HpllReg(gen)])
    => last.freq = 0

\* The same of the register aspeed_scu_get_apb_freq reads, HPLL_PARAM at
\* offset 0x24, in every variant.
C12_OffGivesZeroAt0x24 ==
    (last.op = "freq" /\ HpllOff(gen) \subseteq pre[HPLL_PARAM])
    => last.freq = 0

\* The bypass bit of the H-PLL parameter register of each variant.
HpllBypass(g) == IF g = "ast2400" THEN BIT(17) ELSE BIT(20)

\* The input clock the strap flags select: 25 MHz with flag 23, 48 MHz
\* with flag 18 alone, 24 MHz with neither.
SelectedClkin(strap) ==
    IF 23 \in strap THEN 25000000
    ELSE IF 18 \in strap THEN 48000000
    ELSE 24000000

C14_OutOfBounds ==
    (last.op \in {"read", "write"} /\ LastReg >= class_nr_regs(gen))
    => /\ regs = pre
       /\ last.op = "read" => last.ret = Zero
       /\ "oob" \in last.log

\* C14 happens: an unlocked AST2400 is written at the first offset past
\* its registers, after the guest had stored a value in a register.
C14_Witness ==
    /\ gen = "ast2400"
    /\ IsWrite
    /\ last.offset = 4 * ASPEED_SCU_NR_REGS
    /\ last.data = D1
    /\ pre[PROT_KEY] # Zero
    /\ pre[SYS_RST_CTRL] = D1
    /\ regs = pre

\* The registers of each variant that its write handler treats as read
\* only or that hold an identification: the silicon revision, the
\* frequency counter evaluation register, the VGA scratch registers, the
\* random data register, the free running counters, the chip IDs.
C15_ReadOnlyRegs(g) ==
    CASE g = "ast2400" ->
            {SILICON_REV, FREQ_CNTR_EVAL, RNG_DATA, FREE_CNTR4, FREE_CNTR4_EXT}
            \cup (VGA_SCRATCH1..VGA_SCRATCH8)
      [] g = "ast2500" ->
            {SILICON_REV, FREQ_CNTR_EVAL, RNG_DATA, FREE_CNTR4, FREE_CNTR4_EXT,
             CHIP_ID0, CHIP_ID1}
            \cup (VGA_SCRATCH1..VGA_SCRATCH8)
      [] g = "ast2600" ->
            {AST2600_SILICON_REV, AST2600_SILICON_REV2, AST2600_RNG_DATA,
             AST2600_CHIP_ID0, AST2600_CHIP_ID1}

\* C15 as claimed: a write to a read-only register of the variant leaves
\* the register file unchanged.
C15_ReadOnlyDiscarded ==
    (IsWrite /\ LastReg \in C15_ReadOnlyRegs(gen)) => regs = pre

\* C15 as amended: a write to a read-only register of the variant leaves
\* the register file unchanged, except that on the AST2500 a write of v to
\* the silicon revision register clears the bits of v in the hardware
\* strap 1 register and changes nothing else.
C15_ReadOnlyDiscardedButAlias ==
    (IsWrite /\ LastReg \in C15_ReadOnlyRegs(gen))
    => IF gen = "ast2500" /\ LastReg = SILICON_REV
       THEN regs = [pre EXCEPT ![HW_STRAP1] = @ \ last.data]
       ELSE regs = pre

\* C15 happens: an unlocked AST2500 drops a write to its chip ID register,
\* with the diagnostic.
C15_Witness ==
    /\ gen = "ast2500"
    /\ IsWrite
    /\ LastReg = CHIP_ID0
    /\ pre[PROT_KEY] # Zero
    /\ last.data # pre[CHIP_ID0]
    /\ "read-only" \in last.log
    /\ regs = pre

\* The revision registers of each variant.
C16_RevRegs(g) ==
    IF g = "ast2600"
    THEN {AST2600_SILICON_REV, AST2600_SILICON_REV2}
    ELSE {SILICON_REV}

\* C16: once the device has been reset, in every state the reads, writes
\* and frequency queries of the guest lead to, each revision register holds
\* the value reset gives it, and no call other than reset changes it.
C16_RevisionKept ==
    (last.op \notin {"init", "realize"})
    => \A r \in C16_RevRegs(gen) :
          /\ regs[r] = dc_reset(regs, gen, silicon_rev, hw_strap1, hw_strap2,
                                hw_prot_key)[r]
          /\ last.op \in {"read", "write", "freq"} => regs[r] = pre[r]

\* C16 happens: an unlocked AST2600 is written at its second revision
\* register and keeps the revision of the board there.
C16_Witness ==
    /\ gen = "ast2600"
    /\ IsWrite
    /\ LastReg = AST2600_SILICON_REV2
    /\ pre[PROT_KEY] # Zero
    /\ last.data # silicon_rev
    /\ regs[AST2600_SILICON_REV2] = silicon_rev
    /\ regs[AST2600_SILICON_REV] = AST2600_A1_SILICON_REV

\* The revision identifiers of the AST2400 A0 and A1, the AST2500 A0 and
\* A1 and the AST2600 A0 and A1.
C17_Recognized ==
    {Word(\H0200, \H0303), Word(\H0201, \H0303), Word(\H0400, \H0303),
     Word(\H0401, \H0303), Word(\H0500, \H0303), Word(\H0501, \H0303)}

\* C17: realize installs the MMIO region and reports no error when the
\* revision property is one of the six recognized identifiers; with any
\* other value it reports an error, the region is never installed and the
\* device is never reset or accessed.
C17_RealizeChecksRevision ==
    /\ last.op = "init" => ~iomem /\ ~errp
    /\ last.op # "init"
       => IF silicon_rev \in C17_Recognized
          THEN iomem /\ ~errp
          ELSE ~iomem /\ errp /\ last.op = "realize" /\ regs = ZeroFile(gen)

\* C17 happens: realize has refused a board with an unknown revision.
C17_Witness ==
    /\ last.op = "realize"
    /\ silicon_rev \notin C17_Recognized
    /\ errp
    /\ ~iomem

\* C18: every index of s->regs a read, a write, a reset or a frequency
\* query reads or writes is below the register count of the class, the
\* register below a clear register and the protection register two words
\* above a strap register included; the words of the array from the
\* register count on are never written.
C18_IndicesBelowCount ==
    /\ last.refs \subseteq InRange(gen)
    /\ \A r \in regs_indices \ InRange(gen) : regs[r] = Zero

\* C18 happens: a write to the strap 2 register of an AST2600 reads the key
\* register and the protection register two words above the strap and
\* writes the strap.
C18_Witness ==
    /\ gen = "ast2600"
    /\ IsWrite
    /\ LastReg = AST2600_HW_STRAP2
    /\ last.refs = {AST2600_PROT_KEY, AST2600_HW_STRAP2,
                    AST2600_HW_STRAP2_PROT}
    /\ regs[AST2600_HW_STRAP2] # pre[AST2600_HW_STRAP2]

\* C20: on the AST2500 a write to a register of the locked range (above
\* the key register, below the CPU2 base segment 1 register) made while the
\* key register is 0 logs the lock and leaves the register file the same
\* write leaves when the key register is 1 (the key register aside).
C20_LockedWriteProceeds ==
    (/\ gen = "ast2500"
     /\ IsWrite
     /\ LastReg > PROT_KEY
     /\ LastReg < CPU2_BASE_SEG1
     /\ pre[PROT_KEY] = Zero)
    => /\ "locked" \in last.log
       /\ regs = [aspeed_ast2500_scu_write(
                      [pre EXCEPT ![PROT_KEY] = One],
                      last.offset, last.data).regs
                     EXCEPT ![PROT_KEY] = Zero]

\* C20 happens: a locked AST2500 logs the lock and stores the value written
\* to its wake-up enable register.
C20_Witness ==
    /\ gen = "ast2500"
    /\ IsWrite
    /\ LastReg = WAKEUP_EN
    /\ pre[PROT_KEY] = Zero
    /\ "locked" \in last.log
    /\ pre[WAKEUP_EN] # last.data
    /\ regs[WAKEUP_EN] = last.data

\* The register file the reset in progress, or the last one, leaves.
C19_AfterReset ==
    dc_reset(reset_from, gen, silicon_rev, hw_strap1, hw_strap2, hw_prot_key)

\* C19: an access that was in flight while the device was being reset has
\* the result it has in a serial order of the two.  A read returns what it
\* returns from the file as the reset found it or from the file the reset
\* leaves, never a value of a file reset in part, and once the reset is
\* over the file is the one the reset leaves, with the write applied if it
\* ran after the reset.
C19_ResetAtomic ==
    (inflight.ran /\ inflight.overlap)
    => /\ inflight.op = "read"
          => inflight.ret \in
               {ops_read(gen, reset_from, inflight.offset, Zero).ret,
                ops_read(gen, C19_AfterReset, inflight.offset, Zero).ret}
       /\ (inflight.op = "write" /\ reset_pc = 0)
          => regs \in
               {C19_AfterReset,
                ops_write(gen, C19_AfterReset, inflight.offset,
                          inflight.data).regs}

\* C19 happens: a read of the reset control register of an AST2500, in
\* flight during a reset that undid a write of the guest to that register,
\* has run after the reset and returned the reset value.
C19_Witness ==
    /\ gen = "ast2500"
    /\ inflight.ran
    /\ inflight.overlap
    /\ inflight.op = "read"
    /\ inflight.offset = 4 * SYS_RST_CTRL
    /\ reset_from[SYS_RST_CTRL] = D1
    /\ inflight.ret = ast2500_a1_resets[SYS_RST_CTRL]
    /\ inflight.ret # D1

\* C21: on the AST2500 a write of v to the hardware strap 1 register ORs v
\* into it, and a write of v to the silicon revision register clears the
\* bits of v in the hardware strap 1 register and leaves the silicon
\* revision register, and every other register, as it was.  On the AST2400
\* a write of v to the hardware strap 1 register makes it v.  The alias is
\* of the AST2500 only: on the AST2400 and the AST2600 a write to the
\* silicon revision register changes no register.
C21_StrapWrites ==
    IsWrite
    => /\ (gen = "ast2500" /\ LastReg = HW_STRAP1)
          => regs = [pre EXCEPT ![HW_STRAP1] = @ \cup last.data]
       /\ (gen = "ast2500" /\ LastReg = SILICON_REV)
          => /\ regs = [pre EXCEPT ![HW_STRAP1] = @ \ last.data]
             /\ regs[SILICON_REV] = pre[SILICON_REV]
       /\ (gen = "ast2400" /\ LastReg = HW_STRAP1)
          => regs = [pre EXCEPT ![HW_STRAP1] = last.data]
       /\ (gen = "ast2400" /\ LastReg = SILICON_REV) => regs = pre
       /\ (gen = "ast2600" /\ LastReg = AST2600_SILICON_REV) => regs = pre

\* C21 happens: an AST2500 whose guest had ORed a value into the strap
\* register clears the same bits through the silicon revision register,
\* and the strap loses a bit the board had set.
C21_Witness ==
    /\ gen = "ast2500"
    /\ IsWrite
    /\ LastReg = SILICON_REV
    /\ last.data = D1
    /\ pre[HW_STRAP1] = hw_strap1 \cup D1
    /\ regs[HW_STRAP1] = hw_strap1 \ D1
    /\ regs[HW_STRAP1] # hw_strap1
    /\ regs[SILICON_REV] = silicon_rev

\* C22: on the AST2600, after reset the silicon revision register holds
\* the A1 identifier 0x05010303 whatever the revision property is, the
\* second revision register holds the revision property, the two strap
\* registers hold the strap properties and the key register holds the key
\* property.
C22_ResetSeeds2600 ==
    (gen = "ast2600" /\ IsReset)
    => /\ regs[TO_REG(\H04)] = Word(\H0501, \H0303)
       /\ regs[TO_REG(\H14)] = silicon_rev
       /\ regs[TO_REG(\H500)] = hw_strap1
       /\ regs[TO_REG(\H510)] = hw_strap2
       /\ regs[TO_REG(\H00)] = hw_prot_key

\* C22 happens: an AST2600 of revision A0 whose guest had set bits of
\* strap 1 and rewritten the key register is reset.
C22_Witness ==
    /\ gen = "ast2600"
    /\ IsReset
    /\ silicon_rev = AST2600_A0_SILICON_REV
    /\ pre[AST2600_HW_STRAP1] # hw_strap1
    /\ pre[AST2600_PROT_KEY] # hw_prot_key
    /\ regs[AST2600_SILICON_REV] = AST2600_A1_SILICON_REV
    /\ regs[AST2600_SILICON_REV2] = AST2600_A0_SILICON_REV
    /\ regs[AST2600_HW_STRAP1] = hw_strap1
    /\ regs[AST2600_PROT_KEY] = hw_prot_key

\* The values a PLL extension register is made to hold: with and without
\* bit 31, and all ones.
C23_Stored == {Zero, D1, D2, Word(\HFFFF, \HFFFF)}

\* C23: on the AST2600 a read of the H-PLL, M-PLL or E-PLL extension
\* register (offsets 0x204, 0x224, 0x244) returns the stored value with bit
\* 31 set, whatever the stored value is, and changes no register.  On the
\* AST2400 and the AST2500 every read within the registers returns the
\* word the register holds when the read returns, with no bit added.
C23_PllLockBit ==
    /\ (last.op = "read" /\ LastReg < class_nr_regs(gen))
       => IF gen = "ast2600"
          THEN LastReg \in {TO_REG(\H204), TO_REG(\H224), TO_REG(\H244)}
               => /\ last.ret = pre[LastReg] \cup {31}
                  /\ regs = pre
          ELSE last.ret = regs[LastReg]
    /\ gen = "ast2600"
       => \A reg \in {TO_REG(\H204), TO_REG(\H224), TO_REG(\H244)},
             v \in C23_Stored :
             LET s == [regs EXCEPT ![reg] = v]
                 r == ops_read(gen, s, 4 * reg, Zero)
             IN  r.ret = v \cup {31} /\ r.regs = s

\* C23 happens: the H-PLL extension register of an AST2600 holds a value
\* the guest wrote, without bit 31, and a read returns it with bit 31.
C23_Witness ==
    /\ gen = "ast2600"
    /\ last.op = "read"
    /\ LastReg = AST2600_HPLL_EXT
    /\ pre[AST2600_HPLL_EXT] = D1
    /\ 31 \notin D1
    /\ last.ret = D1 \cup BIT(31)
    /\ regs[AST2600_HPLL_EXT] = D1

\* C24: on the AST2400 and the AST2500 a read of the wake-up enable
\* register, which is write only, logs a diagnostic and returns the word
\* the register holds; on every variant a read within the registers of a
\* register that is neither the random data register nor a PLL extension
\* register returns the word the register holds, and no such read changes
\* a register.
C24_PlainRead ==
    (/\ last.op = "read"
     /\ LastReg < class_nr_regs(gen)
     /\ LastReg # RngReg(gen)
     /\ LastReg \notin PllExtRegs(gen))
    => /\ last.ret = pre[LastReg]
       /\ regs = pre
       /\ (gen # "ast2600" /\ LastReg = TO_REG(\HC0))
          => "write-only" \in last.log

\* C24 happens: the guest of an AST2400 reads back what it wrote to the
\* wake-up enable register.
C24_Witness ==
    /\ gen = "ast2400"
    /\ last.op = "read"
    /\ LastReg = WAKEUP_EN
    /\ pre[WAKEUP_EN] = D1
    /\ last.ret = D1
    /\ D1 # Zero
    /\ "write-only" \in last.log
    /\ regs = pre

\* The registers of each variant whose write is not a plain store: the
\* key register, the read-only registers, on the AST2500 the hardware
\* strap 1 register, on the AST2600 the set, clear and strap registers.
C25_Special(g) ==
    {TO_REG(\H00)} \cup C15_ReadOnlyRegs(g)
    \cup (IF g = "ast2500" THEN {TO_REG(\H70)} ELSE {})
    \cup (IF g = "ast2600"
          THEN C7_SetRegs \cup C8_ClearRegs \cup C9_Straps ELSE {})

\* C25: a write within the registers to a register with no special write
\* behaviour stores the value written in the word at index offset / 4,
\* which keeps nothing of what it held, and changes no other word; this
\* with the key register 0 or not, and on the AST2400 for accesses of 1, 2
\* and 4 bytes at any offset of the word the access size divides.
C25_NormalStore ==
    (/\ IsWrite
     /\ last.offset \div 4 < class_nr_regs(gen)
     /\ last.offset \div 4 \notin C25_Special(gen))
    => regs = [pre EXCEPT ![last.offset \div 4] = last.data]

\* C25 happens: a write of one byte at offset 0x05 of an AST2400 replaces
\* the whole word at offset 0x04, which held a wider value.
C25_Witness ==
    /\ gen = "ast2400"
    /\ IsWrite
    /\ last.offset = 5
    /\ last.size = 1
    /\ pre[SYS_RST_CTRL] = D1
    /\ last.data = Word(0, \H11)
    /\ regs[SYS_RST_CTRL] = Word(0, \H11)
    /\ regs[SYS_RST_CTRL] # pre[SYS_RST_CTRL]

\* The clock selection register of each variant.
ClkSelReg(g) == IF g = "ast2600" THEN AST2600_CLK_SEL ELSE CLK_SEL

\* The APB divider of each variant.
ApbDivider(g) == IF g = "ast2400" THEN 2 ELSE 4

\* C26: the APB frequency is the frequency the PLL formula returned,
\* divided by the PCLK divider field (bits 25:23) of the variant's clock
\* selection register plus 1, then by the APB divider, 2 on the AST2400 and
\* 4 on the AST2500 and the AST2600, each division truncating.
C26_ApbFreq ==
    last.op = "freq"
    => last.freq =
          ToNat(Div32(Div32(last.hpll,
                            Field(pre[ClkSelReg(gen)], 23, 3) + 1),
                      ApbDivider(gen)))

\* The same with the PCLK divider field of the word at offset 0x08, which
\* aspeed_scu_get_apb_freq reads in every variant.
C26_ApbFreqAt0x08 ==
    last.op = "freq"
    => last.freq =
          ToNat(Div32(Div32(last.hpll, Field(pre[CLK_SEL], 23, 3) + 1),
                      ApbDivider(gen)))

\* The multiplier of the PLL formula of each variant, of the parameter
\* word w: on the AST2400 (2 - od) * ((n + 2) / (d + 1)) with n = bits
\* 10:5, od = bit 4, d = bits 3:0; on the AST2500 and the AST2600
\* ((m + 1) / (n + 1)) / (p + 1) with p = bits 18:13, m = bits 12:5,
\* n = bits 4:0.
C27_Multiplier(g, w) ==
    IF g = "ast2400"
    THEN (2 - Field(w, 4, 1)) * ((Field(w, 5, 6) + 2) \div (Field(w, 0, 4) + 1))
    ELSE ((Field(w, 5, 8) + 1) \div (Field(w, 0, 5) + 1))
         \div (Field(w, 13, 6) + 1)

\* The product of a frequency and a multiplier, as its low 16 bits and the
\* rest; the rest is below 2^16 when the product is below 2^32.
C27_Product(clkin, mult) ==
    LET l == (clkin % 65536) * mult
    IN  [hi |-> (clkin \div 65536) * mult + l \div 65536, lo |-> l % 65536]

\* The strapped frequency of the AST2400 in MHz: the row of the 25 MHz
\* flag, the column of strap bits 9:8.
C27_Strapped(strap) ==
    LET row == IF 23 \in strap THEN <<400, 375, 350, 425>>
               ELSE <<384, 360, 336, 408>>
    IN  row[Field(strap, 8, 2) + 1]

\* The parameter word has neither the off bit nor the bypass bit of the
\* variant.
C27_Running(g, w) ==
    IF g = "ast2400" THEN 16 \notin w /\ 17 \notin w
    ELSE 19 \notin w /\ 20 \notin w

\* C27: when the parameter word given to the PLL formula has neither the
\* off bit nor the bypass bit, the frequency the formula returns is the
\* input clock times the multiplier of the variant, the AST2600 having the
\* multiplier of the AST2500; on the AST2400 this is so when the
\* programmed bit 18 is set, and when it is clear the frequency is the
\* strapped one of the table.
C27_PllOutput ==
    (last.op = "freq" /\ C27_Running(gen, last.hpll_reg))
    => IF gen = "ast2400" /\ 18 \notin last.hpll_reg
       THEN last.hpll = U32(C27_Strapped(hw_strap1) * 1000000)
       ELSE last.hpll =
               C27_Product(SelectedClkin(hw_strap1),
                           C27_Multiplier(gen, last.hpll_reg))

\* The same with the product taken modulo 2^32, as uint32_t arithmetic
\* leaves it.
C27_PllOutputMod32 ==
    (last.op = "freq" /\ C27_Running(gen, last.hpll_reg))
    => IF gen = "ast2400" /\ 18 \notin last.hpll_reg
       THEN last.hpll = U32(C27_Strapped(hw_strap1) * 1000000)
       ELSE LET p == C27_Product(SelectedClkin(hw_strap1),
                                 C27_Multiplier(gen, last.hpll_reg))
            IN  last.hpll = [hi |-> p.hi % 65536, lo |-> p.lo]

\* The APB frequency computed from the value a bus read of the variant's
\* own H-PLL parameter register returns and from the variant's own clock
\* selection register, in the file s.
C28_FromOwnRegisters(g, s, strap1) ==
    LET w == ops_read(g, s, 4 * HpllReg(g), Zero).ret
    IN  ToNat(Div32(Div32(class_calc_hpll(g, strap1, w),
                          Field(s[ClkSelReg(g)], 23, 3) + 1),
                    ApbDivider(g)))

\* C28: on every variant the frequency query gives the PLL formula the
\* value a bus read of the variant's H-PLL parameter register returns
\* (offset 0x24, on the AST2600 offset 0x200), takes the PCLK divider from
\* the variant's clock selection register (offset 0x08, on the AST2600
\* offset 0x300), reads these two registers and returns the frequency they
\* give.
C28_OwnRegisters ==
    last.op = "freq"
    => /\ last.hpll_reg = ops_read(gen, pre, 4 * HpllReg(gen), Zero).ret
       /\ last.refs = {HpllReg(gen), ClkSelReg(gen)}
       /\ last.freq = C28_FromOwnRegisters(gen, pre, hw_strap1)

\* The same of the AST2400 and the AST2500, whose registers are the ones
\* at offsets 0x24 and 0x08.
C28_OwnRegistersOld ==
    (last.op = "freq" /\ gen \in {"ast2400", "ast2500"})
    => /\ last.hpll_reg = ops_read(gen, pre, 4 * HpllReg(gen), Zero).ret
       /\ last.refs = {HpllReg(gen), ClkSelReg(gen)}
       /\ last.freq = C28_FromOwnRegisters(gen, pre, hw_strap1)

\* C29: the input clock of a frequency query is 25 MHz when flag 23
\* (25 MHz) of the hw-strap1 property is set, flag 18 (48 MHz) set or not,
\* 48 MHz when flag 18 alone is set, and 24 MHz, the lowest of the three,
\* when neither is set; a bypassed PLL of the AST2500 or the AST2600 runs
\* at that frequency.
C29_InputClock ==
    last.op = "freq"
    => /\ last.clkin \in {24000000, 25000000, 48000000}
       /\ 23 \in hw_strap1 => last.clkin = 25000000
       /\ (23 \notin hw_strap1 /\ 18 \in hw_strap1) => last.clkin = 48000000
       /\ (23 \notin hw_strap1 /\ 18 \notin hw_strap1)
          => last.clkin = 24000000
       /\ (gen # "ast2400" /\ 20 \in last.hpll_reg /\ 19 \notin last.hpll_reg)
          => last.hpll = U32(last.clkin)

\* C29 happens: a board strapped with both flags runs a bypassed PLL at
\* 25 MHz.
C29_Witness ==
    /\ last.op = "freq"
    /\ gen = "ast2500"
    /\ 23 \in hw_strap1
    /\ 18 \in hw_strap1
    /\ last.clkin = 25000000
    /\ 20 \in last.hpll_reg
    /\ last.hpll = U32(25000000)

\* C30: on every variant a write to the key register (offset 0x00) stores
\* 1 when the value written is the unlock constant and 0 otherwise, the
\* key register being 0 or not before; and nothing but such a write or a
\* reset changes the key register: no read, no frequency query and no
\* write to another register, the clear registers of the AST2600 and the
\* silicon revision register of the AST2500 included.
C30_KeyRegister ==
    /\ (IsWrite /\ last.offset \div 4 = 0)
       => /\ regs[0] = (IF last.data = Word(\H1688, \HA8A8)
                        THEN Word(0, 1) ELSE Zero)
          /\ \A r \in regs_indices \ {0} : regs[r] = pre[r]
    /\ (\/ last.op \in {"read", "freq", "idle"}
        \/ IsWrite /\ last.offset \div 4 # 0)
       => regs[0] = pre[0]

\* C30 happens: a locked AST2600 is unlocked by a write to its key
\* register.
C30_Witness ==
    /\ gen = "ast2600"
    /\ IsWrite
    /\ LastReg = AST2600_PROT_KEY
    /\ pre[AST2600_PROT_KEY] = Zero
    /\ last.data = ASPEED_SCU_PROT_KEY
    /\ regs[AST2600_PROT_KEY] = One

\* The hardware strap 1 register of each variant.
StrapReg(g) == IF g = "ast2600" THEN AST2600_HW_STRAP1 ELSE HW_STRAP1

\* C31: the input clock of a frequency query is the one the flags of the
\* hw-strap1 property select, whatever the guest has made of the hardware
\* strap 1 register since reset (by a store on the AST2400, by ORing and
\* clearing on the AST2500 and the AST2600): the query returns what it
\* returns with the register holding the property again.  The query
\* changes no register.
C31_ClkinFromProperty ==
    last.op = "freq"
    => /\ last.clkin = SelectedClkin(hw_strap1)
       /\ \A v \in {hw_strap1, Zero, StrapFlags} :
             LET q == aspeed_scu_get_apb_freq(
                          gen, [pre EXCEPT ![StrapReg(gen)] = v], hw_strap1)
             IN  q.ret = last.freq /\ q.clkin = last.clkin
       /\ regs = pre

\* C31 happens: the guest of a board strapped for 24 MHz has set the 25 MHz
\* flag in the strap register, and the query still runs on 24 MHz.
C31_Witness ==
    /\ last.op = "freq"
    /\ 23 \notin hw_strap1
    /\ 18 \notin hw_strap1
    /\ 23 \in pre[StrapReg(gen)]
    /\ SelectedClkin(pre[StrapReg(gen)]) = 25000000
    /\ last.clkin = 24000000
    /\ regs = pre

\* C31 happens on the AST2500 too, the guest having cleared the 48 MHz
\* flag through the silicon revision register.
C31_WitnessCleared ==
    /\ gen = "ast2500"
    /\ last.op = "freq"
    /\ hw_strap1 = BIT(18)
    /\ 18 \notin pre[HW_STRAP1]
    /\ last.clkin = 48000000

\* Parameter and strap words with every field at its largest and at its
\* smallest, beside the ones the guests and the boards of the model use.
C32_Words ==
    PllData \cup ClkSelData \cup ClockStraps
    \cup {Zero, Word(\HFFFF, \HFFFF), Word(\H0007, \HFFFF),
          Word(\H0004, \HFFFF), Word(\H0004, \H000F), Word(\H0007, \HE01F)}

\* C32: a frequency query divides by numbers that are at least 1: the
\* PCLK divider field plus 1 and the APB divider of the class in every
\* query, d + 1 in the formula of the AST2400 and n + 1 and p + 1 in the
\* formula of the AST2500 and the AST2600; the lookup of the AST2400 in
\* its table of strapped frequencies has a row index of 0 or 1 and a
\* column index of 0 to 3.  This for the queries made and, before any
\* call, for the words of C32_Words as parameter, clock selection and
\* strap word of each variant.
C32_NoDivisionByZero ==
    /\ last.op = "freq"
       => /\ {Field(pre[CLK_SEL], 23, 3) + 1, ApbDivider(gen)}
                \subseteq last.divs
          /\ \A d \in last.divs : d >= 1
          /\ \A i \in last.index : i[1] \in 0..1 /\ i[2] \in 0..3
    /\ last.op = "init"
       => \A g \in Gens, w \in C32_Words :
          /\ \A d \in class_calc_hpll_divisors(g, w) : d >= 1
          /\ SCU_CLK_GET_PCLK_DIV(w) + 1 >= 1
          /\ class_apb_divider(g) >= 1
          /\ \A st \in C32_Words :
                \A i \in aspeed_2400_scu_calc_hpll_index(st, w) :
                    i[1] \in 0..1 /\ i[2] \in 0..3

\* C32 happens: an AST2400 whose PLL is programmed with d = 0 and whose
\* PCLK divider field is 0 answers a query, dividing by 1, 1 and 2.
C32_Witness ==
    /\ gen = "ast2400"
    /\ last.op = "freq"
    /\ 18 \in last.hpll_reg
    /\ Field(last.hpll_reg, 0, 4) = 0
    /\ Field(pre[CLK_SEL], 23, 3) = 0
    /\ last.divs = {1, 2}
    /\ last.freq > 0

\* C32 happens in the table too: an AST2400 strapped for the last column.
C32_WitnessTable ==
    /\ gen = "ast2400"
    /\ last.op = "freq"
    /\ last.index = {<<0, 3>>}
    /\ last.hpll = U32(408000000)

\* C33: when the PLL formula multiplies (the PLL not off, and on the
\* AST2400 programmed), the input clock times the multiplier, 1 under
\* bypass, is below 2^32, and the frequency the formula returns is that
\* product.
C33_ProductFits ==
    (/\ last.op = "freq"
     /\ ~(HpllOff(gen) \subseteq last.hpll_reg)
     /\ gen = "ast2400" => 18 \in last.hpll_reg)
    => LET mult == IF HpllBypass(gen) \subseteq last.hpll_reg THEN 1
                   ELSE C27_Multiplier(gen, last.hpll_reg)
           prod == C27_Product(last.clkin, mult)
       IN  /\ prod.hi < 65536
           /\ last.hpll = prod

\* The same for the multipliers up to 178, 171 and 89 with an input clock
\* of 24, 25 and 48 MHz.
C33_ProductFitsSmall ==
    (/\ last.op = "freq"
     /\ ~(HpllOff(gen) \subseteq last.hpll_reg)
     /\ gen = "ast2400" => 18 \in last.hpll_reg)
    => LET mult == IF HpllBypass(gen) \subseteq last.hpll_reg THEN 1
                   ELSE C27_Multiplier(gen, last.hpll_reg)
           prod == C27_Product(last.clkin, mult)
           most == CASE last.clkin = 24000000 -> 178
                     [] last.clkin = 25000000 -> 171
                     [] last.clkin = 48000000 -> 89
       IN  mult <= most => prod.hi < 65536 /\ last.hpll = prod

====
